---- MODULE Spec2Model ----
(***************************************************************************)
(* zerv-security: the policy definition loader (security-definition        *)
(* .service.js), the per-user policy compiler and resolver (UserPolicy,    *)
(* user-policy.model.js) and the server-side enforcement entry point       *)
(* (security.service.js).                                                  *)
(*                                                                         *)
(* JavaScript objects are TLA+ functions over their own keys: a property   *)
(* that is absent (undefined) is a key that is not in DOMAIN.  JavaScript  *)
(* scalar results of host callbacks (predicates, apply implementations)    *)
(* are the strings "true", "false", "data", ... so that truthiness is      *)
(* something the model computes.  An Error's message is the sequence of    *)
(* the parts the code concatenates into it.                                *)
(***************************************************************************)
EXTENDS Integers, Sequences, FiniteSets, TLC

VARIABLES
    resourceTypes,       \* security-definition.service.js, module variable
    dictionary,          \* security-definition.service.js, module variable
    policies,            \* security-definition.service.js, module variable
    conditionFactories,  \* security-definition.service.js, module variable
    systemSecurityData,  \* security.service.js, module variable
    findRole,            \* security.service.js, module variable
    loadOutcome,         \* what the last call of load did (return / throw, log)
    req,                 \* the applyResourcePolicy request in flight
    pr,                  \* a compiled protected resource under resolution
    calc                 \* what calculateSetting did on pr

vars == <<resourceTypes, dictionary, policies, conditionFactories,
          systemSecurityData, findRole, loadOutcome, req, pr, calc>>

(***************************************************************************)
(* JavaScript values                                                       *)
(***************************************************************************)
Undefined == "<undefined>"
Null == "<null>"

Has(o, k) == k \in DOMAIN o

\* o[k] is present and truthy (a non-empty string that is not null).
Truthy(o, k) == Has(o, k) /\ o[k] \notin {Undefined, Null, ""}

\* o.k as a string-valued property, undefined when absent.
Get(o, k) == IF Has(o, k) THEN o[k] ELSE Undefined

\* The empty object {}.
EmptyObject == [k \in {} |-> k]

\* _.assign({}, a, b): b's properties override a's.
Assign(a, b) == [k \in DOMAIN a \cup DOMAIN b |-> IF k \in DOMAIN b THEN b[k] ELSE a[k]]

\* A host callback's return: a value, a promise of a value, or a throw.
Returns(v) == [kind |-> "value", val |-> v]
PromiseOf(v) == [kind |-> "promise", val |-> v]
Throws(m) == [kind |-> "throw", val |-> m]

\* JavaScript truthiness of what a callback returned: a promise is an object.
IsTruthyValue(v) == v \notin {"false", "0", "", Null, Undefined}
IsTruthy(r) == r.kind = "promise" \/ (r.kind = "value" /\ IsTruthyValue(r.val))

\* The outcome of a function of the code: a returned value or a thrown Error.
Ok(v) == [threw |-> FALSE, val |-> v]
Thrown(m) == [threw |-> TRUE, message |-> m]

\* const name = value; ...: the value is computed once and In is applied to it.
Bind(value, In(_)) == In(value)

\* Indices of a sequence whose element satisfies a test; the first of them.
FirstIndex(s, Test(_)) ==
    IF \E i \in 1..Len(s) : Test(s[i])
    THEN CHOOSE i \in 1..Len(s) : Test(s[i]) /\ \A j \in 1..(i - 1) : ~Test(s[j])
    ELSE 0

(***************************************************************************)
(* security-definition.service.js: the lookups attached to the arrays.     *)
(* findResourceType, findSetting, findConditionFactory and                 *)
(* findProtectedResourceByName are closures over the MODULE variables      *)
(* resourceTypes, conditionFactories and dictionary: whichever array they  *)
(* are attached to, they search the array the module variable names at the *)
(* time of the call.  They take that array as their first parameter here.  *)
(***************************************************************************)

\* _.find(list, {name: name}) as an index, 0 when there is none.
IndexByName(list, name) ==
    FirstIndex(list, LAMBDA e : Has(e, "name") /\ e.name = name)

\* findResourceType (lines 98-112): the definition, or a throw.
findResourceType(rts, type) ==
    Bind(IndexByName(rts, type), LAMBDA i :
       IF i = 0 THEN Thrown(<<"Undefined resource type [", type, "].">>)
       ELSE Ok(rts[i]))

\* _.find(settings, {value: setting}) on a type definition, as an index.
SettingIndex(typeDef, setting) ==
    IF Has(typeDef, "settings")
    THEN FirstIndex(typeDef.settings, LAMBDA s : Has(s, "value") /\ s.value = setting)
    ELSE 0

\* findSetting (lines 94-96): the setting object, EmptyObject standing for
\* undefined (found is FALSE then), or the throw of findResourceType.
findSetting(rts, typeName, setting) ==
    Bind(findResourceType(rts, typeName), LAMBDA t :
       IF t.threw THEN t
       ELSE Bind(SettingIndex(t.val, setting), LAMBDA i :
               IF i = 0 THEN [threw |-> FALSE, found |-> FALSE, val |-> EmptyObject]
               ELSE [threw |-> FALSE, found |-> TRUE, val |-> t.val.settings[i]]))

\* findConditionFactory (lines 114-120).
findConditionFactory(cfs, factoryName) ==
    Bind(FirstIndex(cfs, LAMBDA f : Has(f, "factory") /\ f.factory = factoryName), LAMBDA i :
       IF i = 0
       THEN Thrown(<<"Undefined condition factory [", factoryName,
                     "]. Check your security config.">>)
       ELSE Ok(cfs[i]))

\* findProtectedResourceByName (lines 159-166): found is FALSE for undefined.
findProtectedResourceByName(dict, name) ==
    Bind(IndexByName(dict, name), LAMBDA i :
       IF i = 0 THEN [found |-> FALSE, val |-> EmptyObject]
       ELSE [found |-> TRUE, val |-> dict[i]])

(***************************************************************************)
(* security-definition.service.js: validation                              *)
(***************************************************************************)

\* addResourceType (lines 124-134): the registry with the type pushed, or the
\* AssertionError of the first requirement that fails.
addResourceType(rts, resourceTypeData) ==
    IF ~Truthy(resourceTypeData, "name") THEN Thrown(<<"name property is required">>)
    ELSE IF IndexByName(rts, resourceTypeData.name) # 0
    THEN Thrown(<<"Duplicated resource type">>)
    ELSE IF ~Has(resourceTypeData, "env") THEN Thrown(<<"env property is required">>)
    ELSE IF "server" \in resourceTypeData.env /\ ~Truthy(resourceTypeData, "apply")
    THEN Thrown(<<"Apply function is required in server protected resource type">>)
    ELSE Ok(Append(rts, resourceTypeData))

\* The forEach of initializeResourceTypes (lines 81-88): the registry built so
\* far is what the module variable holds when a type throws.
RECURSIVE AddResourceTypes(_, _, _)
AddResourceTypes(rts, resourceTypeList, i) ==
    IF i > Len(resourceTypeList) THEN [threw |-> FALSE, val |-> rts]
    ELSE Bind(addResourceType(rts, resourceTypeList[i]), LAMBDA r :
            IF r.threw
            THEN [threw |-> TRUE, val |-> rts,
                  message |-> r.message \o <<" - invalid resource type [", ToString(i - 1), "]">>]
            ELSE AddResourceTypes(r.val, resourceTypeList, i + 1))

\* addResourceToDictionary (lines 169-190).  The uuid it stores as id is not
\* read by any lookup and is left out.
addResourceToDictionary(rts, dict, protectedResourceData) ==
    IF ~Truthy(protectedResourceData, "name") THEN Thrown(<<"Name is required">>)
    ELSE IF ~Truthy(protectedResourceData, "type") THEN Thrown(<<"type is required">>)
    ELSE IF ~Truthy(protectedResourceData, "locator") THEN Thrown(<<"locator is required">>)
    ELSE IF ~Truthy(protectedResourceData, "defaultSetting")
    THEN Thrown(<<"defaultSetting is required">>)
    ELSE Bind(findSetting(rts, protectedResourceData.type,
                                       protectedResourceData.defaultSetting), LAMBDA settingObj :
            IF settingObj.threw THEN Thrown(settingObj.message)
            ELSE IF ~settingObj.found
            THEN Thrown(<<"defaultSetting [", protectedResourceData.defaultSetting,
                          "] is unknown to type [", protectedResourceData.type, "]">>)
            ELSE IF IndexByName(dict, protectedResourceData.name) # 0
            THEN Thrown(<<"Duplicated protected resource [", protectedResourceData.name, "]">>)
            ELSE Ok(Append(dict, protectedResourceData)))

\* The forEach of initializeDictionary (lines 145-152).
RECURSIVE AddResourcesToDictionary(_, _, _, _)
AddResourcesToDictionary(rts, dict, protectedResources, i) ==
    IF i > Len(protectedResources) THEN [threw |-> FALSE, val |-> dict]
    ELSE Bind(addResourceToDictionary(rts, dict, protectedResources[i]), LAMBDA r :
            IF r.threw
            THEN [threw |-> TRUE, val |-> dict,
                  message |-> r.message \o <<" - invalid protected resource in dictionary: ",
                                              Get(protectedResources[i], "name")>>]
            ELSE AddResourcesToDictionary(rts, r.val, protectedResources, i + 1))

\* checkPolicyProtectedResource (lines 270-278): <<>> when the grant is valid,
\* the message of the AssertionError otherwise.
MutCheckPolicyProtectedResourceNoSettingCheck(rts, dict, config) ==
    Bind(findProtectedResourceByName(dict, Get(config, "resource")), LAMBDA protectedResource :
       IF ~protectedResource.found
       THEN <<"Resource [", Get(config, "resource"), "] is not defined in the dictionary">>
       ELSE IF ~Truthy(config, "setting") THEN <<"Setting is required">>
       ELSE <<>>)

checkPolicyProtectedResource(rts, dict, config) ==
    Bind(findProtectedResourceByName(dict, Get(config, "resource")), LAMBDA protectedResource :
       IF ~protectedResource.found
       THEN <<"Resource [", Get(config, "resource"), "] is not defined in the dictionary">>
       ELSE IF ~Truthy(config, "setting") THEN <<"Setting is required">>
       ELSE Bind(findSetting(rts, protectedResource.val.type, config.setting), LAMBDA s :
               IF s.threw THEN s.message
               ELSE IF ~s.found
               THEN <<"Resource [", config.resource, "] uses an undefined setting [",
                      config.setting, "]. Allowed values by its type [",
                      protectedResource.val.type, "]">>
               ELSE <<>>))

\* The forEach of checkPolicySetting over config.protectedResources
\* (lines 258-265): the message of the first grant that fails, <<>> if none.
RECURSIVE CheckPolicyProtectedResources(_, _, _, _)
CheckPolicyProtectedResources(rts, dict, grants, i) ==
    IF i > Len(grants) THEN <<>>
    ELSE Bind(checkPolicyProtectedResource(rts, dict, grants[i]), LAMBDA m :
            IF m # <<>>
            THEN m \o <<" - invalid protected resource [", Get(grants[i], "resource"), "]">>
            ELSE CheckPolicyProtectedResources(rts, dict, grants, i + 1))

\* checkPolicySetting (lines 250-268): the policy setting as the code leaves it
\* (protectedResources set to [] when absent), or the throw.
checkPolicySetting(rts, dict, config) ==
    IF ~Truthy(config, "setting") THEN Thrown(<<"setting is required in policy settings">>)
    ELSE IF ~Has(config, "protectedResources")
    THEN Ok(Assign(config, [protectedResources |-> <<>>]))
    ELSE Bind(CheckPolicyProtectedResources(rts, dict, config.protectedResources, 1), LAMBDA m :
            IF m # <<>> THEN Thrown(m) ELSE Ok(config))

\* The forEach of addPolicy over policy.settings (lines 235-242).
RECURSIVE CheckPolicySettings(_, _, _, _, _)
CheckPolicySettings(rts, dict, settings, i, done) ==
    IF i > Len(settings) THEN Ok(done)
    ELSE Bind(checkPolicySetting(rts, dict, settings[i]), LAMBDA r :
            IF r.threw
            THEN Thrown(r.message \o <<" - invalid policy setting: ", Get(settings[i], "setting")>>)
            ELSE CheckPolicySettings(rts, dict, settings, i + 1, Append(done, r.val)))

\* addPolicy (lines 224-248).
MutAddPolicyNoDuplicateCheck(rts, dict, pols, policy) ==
    IF ~Truthy(policy, "name") THEN Thrown(<<"Name is required">>)
    ELSE IF ~Has(policy, "settings") THEN Thrown(<<"Settings is required">>)
    ELSE Bind(CheckPolicySettings(rts, dict, policy.settings, 1, <<>>), LAMBDA r :
            IF r.threw THEN r
            ELSE IF /\ Truthy(policy, "defaultSetting")
                    /\ ~\E i \in 1..Len(r.val) : r.val[i].setting = policy.defaultSetting
            THEN Thrown(<<"defaultSetting [", policy.defaultSetting, "] is incorrect">>)
            ELSE Ok(Append(pols, Assign(policy, [settings |-> r.val]))))

\* addPolicy with the assertion of line 232, which the code comments out.
MutAddPolicyRequiresDefault(rts, dict, pols, policy) ==
    IF ~Truthy(policy, "name") THEN Thrown(<<"Name is required">>)
    ELSE IF ~Has(policy, "settings") THEN Thrown(<<"Settings is required">>)
    ELSE IF IndexByName(pols, policy.name) # 0
    THEN Thrown(<<"Duplicated policy [", policy.name, "]">>)
    ELSE IF ~Truthy(policy, "defaultSetting") THEN Thrown(<<"defaultSettings is required">>)
    ELSE Bind(CheckPolicySettings(rts, dict, policy.settings, 1, <<>>), LAMBDA r :
            IF r.threw THEN r
            ELSE IF ~\E i \in 1..Len(r.val) : r.val[i].setting = policy.defaultSetting
            THEN Thrown(<<"defaultSetting [", policy.defaultSetting, "] is incorrect">>)
            ELSE Ok(Append(pols, Assign(policy, [settings |-> r.val]))))

addPolicy(rts, dict, pols, policy) ==
    IF ~Truthy(policy, "name") THEN Thrown(<<"Name is required">>)
    ELSE IF ~Has(policy, "settings") THEN Thrown(<<"Settings is required">>)
    ELSE IF IndexByName(pols, policy.name) # 0
    THEN Thrown(<<"Duplicated policy [", policy.name, "]">>)
    ELSE Bind(CheckPolicySettings(rts, dict, policy.settings, 1, <<>>), LAMBDA r :
            IF r.threw THEN r
            ELSE IF /\ Truthy(policy, "defaultSetting")
                    /\ ~\E i \in 1..Len(r.val) : r.val[i].setting = policy.defaultSetting
            THEN Thrown(<<"defaultSetting [", policy.defaultSetting, "] is incorrect">>)
            ELSE Ok(Append(pols, Assign(policy, [settings |-> r.val]))))

\* The forEach of initializePolicies (lines 199-206).
RECURSIVE AddPolicies(_, _, _, _, _)
AddPolicies(rts, dict, pols, policyList, i) ==
    IF i > Len(policyList) THEN [threw |-> FALSE, val |-> pols]
    ELSE Bind(addPolicy(rts, dict, pols, policyList[i]), LAMBDA r :
            IF r.threw
            THEN [threw |-> TRUE, val |-> pols,
                  message |-> r.message \o <<" - invalid policy [", Get(policyList[i], "name"), "]">>]
            ELSE AddPolicies(rts, dict, r.val, policyList, i + 1))

\* load (security-definition.service.js lines 42-62), called initSecurity by
\* security.service.js.  m holds the four module variables before the call.
\* The result says whether load threw (always the generic Error), what it
\* logged (the cause), what the module variables hold afterwards, and the
\* object it returned.  initializeResourceTypes (lines 70-88) assigns
\* conditionFactories and resets resourceTypes before any type is checked;
\* initializeDictionary (142-152) and initializePolicies (197-206) reset their
\* own array only when they are reached.
GenericMessage == <<"Invalid Application Security Configuration">>

LoadResult(threw, message, logged, rts, dict, pols, cfs) ==
    [threw |-> threw, message |-> message, logged |-> logged,
     mod |-> [resourceTypes |-> rts, dictionary |-> dict,
              policies |-> pols, conditionFactories |-> cfs],
     returned |-> [conditionFactories |-> cfs, dictionary |-> dict,
                   resourceTypes |-> rts, policies |-> pols]]

MutLoadRethrows(m, security) ==
    LET cfs == security.conditionFactories
    IN  Bind(AddResourceTypes(<<>>, security.resourceTypes, 1), LAMBDA t :
        Bind(AddResourcesToDictionary(t.val, <<>>, security.dictionary, 1), LAMBDA d :
        Bind(AddPolicies(t.val, d.val, <<>>, security.policies, 1), LAMBDA q :
       IF t.threw
       THEN LoadResult(TRUE, t.message, t.message, t.val, m.dictionary, m.policies, cfs)
       ELSE IF d.threw
       THEN LoadResult(TRUE, d.message, d.message, t.val, d.val, m.policies, cfs)
       ELSE IF q.threw
       THEN LoadResult(TRUE, q.message, q.message, t.val, d.val, q.val, cfs)
       ELSE LoadResult(FALSE, <<>>, <<>>, t.val, d.val, q.val, cfs))))

\* load that validates every collection and reports the last offence.
MutLoadReportsLastOffence(m, security) ==
    LET cfs == security.conditionFactories
    IN  Bind(AddResourceTypes(<<>>, security.resourceTypes, 1), LAMBDA t :
        Bind(AddResourcesToDictionary(t.val, <<>>, security.dictionary, 1), LAMBDA d :
        Bind(AddPolicies(t.val, d.val, <<>>, security.policies, 1), LAMBDA q :
       IF q.threw
       THEN LoadResult(TRUE, GenericMessage, q.message, t.val, d.val, q.val, cfs)
       ELSE IF d.threw
       THEN LoadResult(TRUE, GenericMessage, d.message, t.val, d.val, m.policies, cfs)
       ELSE IF t.threw
       THEN LoadResult(TRUE, GenericMessage, t.message, t.val, m.dictionary, m.policies, cfs)
       ELSE LoadResult(FALSE, <<>>, <<>>, t.val, d.val, q.val, cfs))))

\* load without the resets of lines 73, 143 and 198.
MutLoadKeepsEntries(m, security) ==
    LET cfs == security.conditionFactories
    IN  Bind(AddResourceTypes(m.resourceTypes, security.resourceTypes, 1), LAMBDA t :
        Bind(AddResourcesToDictionary(t.val, m.dictionary, security.dictionary, 1), LAMBDA d :
        Bind(AddPolicies(t.val, d.val, m.policies, security.policies, 1), LAMBDA q :
       IF t.threw
       THEN LoadResult(TRUE, GenericMessage, t.message, t.val, m.dictionary, m.policies, cfs)
       ELSE IF d.threw
       THEN LoadResult(TRUE, GenericMessage, d.message, t.val, d.val, m.policies, cfs)
       ELSE IF q.threw
       THEN LoadResult(TRUE, GenericMessage, q.message, t.val, d.val, q.val, cfs)
       ELSE LoadResult(FALSE, <<>>, <<>>, t.val, d.val, q.val, cfs))))

initSecurity(m, security) ==
    LET cfs == security.conditionFactories
    IN  Bind(AddResourceTypes(<<>>, security.resourceTypes, 1), LAMBDA t :
        Bind(AddResourcesToDictionary(t.val, <<>>, security.dictionary, 1), LAMBDA d :
        Bind(AddPolicies(t.val, d.val, <<>>, security.policies, 1), LAMBDA q :
       IF t.threw
       THEN LoadResult(TRUE, GenericMessage, t.message, t.val, m.dictionary, m.policies, cfs)
       ELSE IF d.threw
       THEN LoadResult(TRUE, GenericMessage, d.message, t.val, d.val, m.policies, cfs)
       ELSE IF q.threw
       THEN LoadResult(TRUE, GenericMessage, q.message, t.val, d.val, q.val, cfs)
       ELSE LoadResult(FALSE, <<>>, <<>>, t.val, d.val, q.val, cfs))))

(***************************************************************************)
(* user-policy.model.js (security-definition.service.js lines 281-565):    *)
(* UserPolicy, the compiled policy of one user.                            *)
(*                                                                         *)
(* A condition string is the sequence of its pieces, "." being a piece of  *)
(* its own: "acct.isOwner" is <<"acct", ".", "isOwner">>.                  *)
(***************************************************************************)
UndefinedObject == [undefined |-> TRUE]

ParamsOf(o) == IF Has(o, "params") THEN o.params ELSE EmptyObject

\* The string made of the pieces of s.
RECURSIVE Concat(_)
Concat(s) == IF s = <<>> THEN "" ELSE Head(s) \o Concat(Tail(s))

\* String.indexOf('.') on a condition string: 0 stands for -1.
IndexOfPeriod(condition) ==
    IF \E i \in 1..Len(condition) : condition[i] = "."
    THEN CHOOSE i \in 1..Len(condition) :
            condition[i] = "." /\ \A j \in 1..(i - 1) : condition[j] # "."
    ELSE 0

\* What the predicates of the host's condition factory do with
\* (policySetting.params, contextParams).  contextParams is undefined when
\* the caller passed none: a predicate that reads it throws a TypeError.
CondFn(conditionName, params, contextParams) ==
    CASE conditionName = "isOwner" ->
            IF contextParams = UndefinedObject
            THEN Throws(<<"TypeError: Cannot read property 'owner' of undefined">>)
            ELSE Returns(contextParams.owner)
      [] conditionName = "asyncIsOwner" ->
            IF contextParams = UndefinedObject
            THEN Throws(<<"TypeError: Cannot read property 'owner' of undefined">>)
            ELSE PromiseOf(contextParams.owner)
      [] conditionName = "never" -> Returns("false")
      [] conditionName = "asyncNever" -> PromiseOf("false")
      [] OTHER -> Throws(<<"Error: broken predicate">>)

\* getPolicyConditionImplementation (lines 498-532).
MutConditionLookedUpWhenEvaluated(policySetting, cfs) ==
    IF ~Has(policySetting, "condition") \/ policySetting.condition = <<>>
    THEN Ok([always |-> TRUE])
    ELSE Ok([always |-> FALSE, factory |-> Head(policySetting.condition),
             fn |-> policySetting.condition[Len(policySetting.condition)]])

\* getPolicyConditionImplementation (lines 498-532): the closure it returns,
\* as the data the closure holds, or the Error it throws.  cfs is the array
\* getPolicyConditionFactory searches (security.service.js lines 171-174).
getPolicyConditionImplementation(policySetting, cfs) ==
    IF ~Has(policySetting, "condition") \/ policySetting.condition = <<>>
    THEN Ok([always |-> TRUE])
    ELSE LET condition == policySetting.condition
             period == IndexOfPeriod(policySetting.condition)
             factoryName == Concat(SubSeq(condition, 1, period - 1))
             conditionName == Concat(SubSeq(condition, period + 1, Len(condition)))
             suffix == <<"- Unknown security condition [", Concat(condition),
                         "] for policy setting [", Get(policySetting, "setting"), "]">>
         IN IF period = 0 THEN Thrown(<<"No security name defined">> \o suffix)
            ELSE Bind(findConditionFactory(cfs, factoryName), LAMBDA conditionGroup :
                    IF conditionGroup.threw THEN Thrown(conditionGroup.message \o suffix)
                    ELSE IF conditionName \notin conditionGroup.val.fns
                    THEN Thrown(<<"No condition implementation [", conditionName, "] in [",
                                  factoryName, "]">> \o suffix)
                    ELSE Ok([always |-> FALSE, factory |-> factoryName,
                             fn |-> conditionName]))

\* policySetting.checkIfEnabled(contextParams) (lines 501-503 and 519-526):
\* what the closure returns or throws.
checkIfEnabled(policySetting, contextParams) ==
    IF policySetting.checkIfEnabled.always THEN Returns("true")
    ELSE Bind(CondFn(policySetting.checkIfEnabled.fn, ParamsOf(policySetting),
                         contextParams), LAMBDA r :
            IF r.kind = "throw"
            THEN Throws(r.val \o <<" - make sure the context param object is passed when calling the protected resource apply method">>)
            ELSE r)

\* buildResourceSettingObject (lines 452-455): _.assign({}, params, settingObject).
\* resource.type is the type object, or undefined after line 348.
MutParamsOverrideSetting(resource, setting, params) ==
    IF resource.type = UndefinedObject
    THEN Thrown(<<"TypeError: Cannot read property 'settings' of undefined">>)
    ELSE Bind(SettingIndex(resource.type, setting), LAMBDA i :
            Ok(Assign(IF i = 0 THEN EmptyObject ELSE resource.type.settings[i], params)))

\* buildResourceSettingObject (lines 452-455): _.assign({}, params, settingObject).
\* resource.type is the type object, or undefined after line 348.
buildResourceSettingObject(resource, setting, params) ==
    IF resource.type = UndefinedObject
    THEN Thrown(<<"TypeError: Cannot read property 'settings' of undefined">>)
    ELSE Bind(SettingIndex(resource.type, setting), LAMBDA i :
            Ok(Assign(params, IF i = 0 THEN EmptyObject ELSE resource.type.settings[i])))

\* getResourceTypeFactory (security.service.js lines 181-186), through
\* getResourceImplementation (lines 556-564).
getResourceTypeFactory(resourceType) ==
    [target |-> Get(resourceType, "name"), apply |-> Get(resourceType, "apply")]

\* buildProtectedResourceObject (lines 463-487).  calculateSetting is
\* computeResourceSetting below.
buildProtectedResourceObject(resource) ==
    Bind(getResourceTypeFactory(resource.type), LAMBDA implementation :
       [resource |-> resource, settings |-> <<>>,
        apply |-> implementation.apply, target |-> implementation.target])

\* resourceMap[name] = object (line 350), the map kept in insertion order as
\* _.values (line 340) reads it.
MapPut(list, name, object) ==
    Bind(FirstIndex(list, LAMBDA o : Get(o.resource, "name") = name), LAMBDA i :
       IF i = 0 THEN Append(list, object) ELSE [list EXCEPT ![i] = object])

\* buildProtectedResources (lines 344-353).
RECURSIVE BuildProtectedResourcesFrom(_, _, _, _)
BuildProtectedResourcesFrom(dict, rts, i, resourceMap) ==
    IF i > Len(dict) THEN Ok(resourceMap)
    ELSE Bind(IndexByName(rts, Get(dict[i], "type")), LAMBDA t :
             Bind(Assign(dict[i], [type |-> IF t = 0 THEN UndefinedObject ELSE rts[t]]), LAMBDA typed :
             Bind(buildResourceSettingObject(typed, Get(dict[i], "defaultSetting"),
                                                   ParamsOf(dict[i])), LAMBDA default :
            IF default.threw THEN default
            ELSE BuildProtectedResourcesFrom(dict, rts, i + 1,
                    MapPut(resourceMap, Get(dict[i], "name"),
                           buildProtectedResourceObject(
                               Assign(typed, [defaultSetting |-> default.val])))))))

buildProtectedResources(dict, rts) == BuildProtectedResourcesFrom(dict, rts, 1, <<>>)

\* addPolicyResourceSettingToProtectedResource (lines 388-399): the map with
\* the entry pushed on the settings of the protected resource.  The entry names
\* its resource and its policy setting names its policy, where the code holds
\* references to these objects.
MutEntryPutFirst(policyResourceConfig, resourceMap, policySetting) ==
    Bind(FirstIndex(resourceMap,
                LAMBDA o : Get(o.resource, "name") = Get(policyResourceConfig, "resource")), LAMBDA i :
       IF i = 0
       THEN Thrown(<<"Resource [", Get(policyResourceConfig, "resource"),
                     "] does not exist in dictionary">>)
       ELSE Bind(buildResourceSettingObject(resourceMap[i].resource,
                               Get(policyResourceConfig, "setting"),
                               ParamsOf(policyResourceConfig)), LAMBDA setting :
               IF setting.threw THEN setting
               ELSE Ok([resourceMap EXCEPT ![i].settings =
                          <<Assign(policyResourceConfig,
                                     [policySetting |-> policySetting,
                                      resource |-> resourceMap[i].resource.name,
                                      setting |-> setting.val])>> \o @])))

addPolicyResourceSettingToProtectedResource(policyResourceConfig, resourceMap, policySetting) ==
    Bind(FirstIndex(resourceMap,
                LAMBDA o : Get(o.resource, "name") = Get(policyResourceConfig, "resource")), LAMBDA i :
       IF i = 0
       THEN Thrown(<<"Resource [", Get(policyResourceConfig, "resource"),
                     "] does not exist in dictionary">>)
       ELSE Bind(buildResourceSettingObject(resourceMap[i].resource,
                               Get(policyResourceConfig, "setting"),
                               ParamsOf(policyResourceConfig)), LAMBDA setting :
               IF setting.threw THEN setting
               ELSE Ok([resourceMap EXCEPT ![i].settings =
                          Append(@, Assign(policyResourceConfig,
                                     [policySetting |-> policySetting,
                                      resource |-> resourceMap[i].resource.name,
                                      setting |-> setting.val]))])))

\* The forEach over policySetting.protectedResources (lines 368-379).
RECURSIVE AddGrants(_, _, _, _)
AddGrants(grants, i, resourceMap, policySetting) ==
    IF i > Len(grants) THEN Ok(resourceMap)
    ELSE Bind(addPolicyResourceSettingToProtectedResource(grants[i], resourceMap,
                                                               policySetting), LAMBDA r :
            IF r.threw
            THEN Thrown(r.message \o <<" - Issue in with policy setting [",
                                       Get(policySetting, "setting"), "]">>)
            ELSE AddGrants(grants, i + 1, r.val, policySetting))

\* The forEach over policy.settings (lines 363-380).
RECURSIVE AddPolicySettings(_, _, _, _)
AddPolicySettings(policy, j, resourceMap, cfs) ==
    IF j > Len(policy.settings) THEN Ok(resourceMap)
    ELSE Bind(getPolicyConditionImplementation(policy.settings[j], cfs), LAMBDA impl :
            IF impl.threw THEN impl
            ELSE IF ~Has(policy.settings[j], "protectedResources")
            THEN Thrown(<<"TypeError: Cannot read property 'forEach' of undefined">>)
            ELSE Bind(Assign(policy.settings[j],
                                         [checkIfEnabled |-> impl.val,
                                          policy |-> Get(policy, "name")]), LAMBDA policySetting :
                     Bind(AddGrants(policySetting.protectedResources, 1, resourceMap,
                                    policySetting), LAMBDA r :
                    IF r.threw THEN r
                    ELSE AddPolicySettings(policy, j + 1, r.val, cfs))))

\* addProtectedResourcePreferences (lines 361-382).
RECURSIVE AddPreferencesFrom(_, _, _, _)
AddPreferencesFrom(pols, i, resourceMap, cfs) ==
    IF i > Len(pols) THEN Ok(resourceMap)
    ELSE Bind(AddPolicySettings(pols[i], 1, resourceMap, cfs), LAMBDA r :
            IF r.threw THEN r ELSE AddPreferencesFrom(pols, i + 1, r.val, cfs))

addProtectedResourcePreferences(pols, resourceMap, cfs) ==
    AddPreferencesFrom(pols, 1, resourceMap, cfs)

\* compileSecurityData (lines 330-341), the body of new UserPolicy(...): the
\* protected resource list, or the Error the constructor throws.
compileSecurityData(securityData, cfs) ==
    Bind(buildProtectedResources(
                IF Has(securityData, "dictionary") THEN securityData.dictionary ELSE <<>>,
                IF Has(securityData, "resourceTypes") THEN securityData.resourceTypes ELSE <<>>), LAMBDA protectedResourceMap :
       IF protectedResourceMap.threw THEN protectedResourceMap
       ELSE addProtectedResourcePreferences(
                IF Has(securityData, "policies") THEN securityData.policies ELSE <<>>,
                protectedResourceMap.val, cfs))

\* getProtectedResourceByLocator (lines 313-322).
MutFirstResourceForAnyLocator(protectedResourceList, locator) ==
    IF protectedResourceList = <<>>
    THEN Thrown(<<"Protected resource [", locator, "] undefined">>)
    ELSE Ok(protectedResourceList[1])

getProtectedResourceByLocator(protectedResourceList, locator) ==
    Bind(FirstIndex(protectedResourceList,
                LAMBDA r : Has(r.resource, "locator") /\ r.resource.locator = locator), LAMBDA i :
       IF i = 0 THEN Thrown(<<"Protected resource [", locator, "] undefined">>)
       ELSE Ok(protectedResourceList[i]))

\* finalSetting.priority > setting.priority (line 430): false when either
\* priority is undefined.
PriorityGreater(finalSetting, setting) ==
    /\ Has(finalSetting, "priority") /\ Has(setting, "priority")
    /\ finalSetting.priority > setting.priority

\* The result of calculateSetting: the setting object returned and the entry
\* it is the setting of (0: the resource's defaultSetting), since the code
\* returns a reference to that object.
Resolved(setting, entry) == [threw |-> FALSE, val |-> setting, entry |-> entry]

\* The forEach of computeResourceSetting (lines 420-433); entry is the index
\* of the entry finalSetting comes from, 0 while finalSetting is undefined.
RECURSIVE MutResolveLastWins(_, _, _, _)
MutResolveLastWins(protectedResource, contextParams, i, entry) ==
    IF i > Len(protectedResource.settings)
    THEN IF entry = 0 THEN Resolved(protectedResource.resource.defaultSetting, 0)
         ELSE Resolved(protectedResource.settings[entry].setting, entry)
    ELSE Bind(protectedResource.settings[i], LAMBDA resourceConfig :
             Bind(checkIfEnabled(resourceConfig.policySetting, contextParams), LAMBDA enabled :
            IF enabled.kind = "throw" THEN Thrown(enabled.val)
            ELSE IF /\ IsTruthy(enabled)
                    /\ \/ entry = 0
                       \/ ~PriorityGreater(resourceConfig.setting,
                                           protectedResource.settings[entry].setting)
            THEN MutResolveLastWins(protectedResource, contextParams, i + 1, i)
            ELSE MutResolveLastWins(protectedResource, contextParams, i + 1, entry)))

RECURSIVE MutResolveDefaultCompetes(_, _, _, _)
MutResolveDefaultCompetes(protectedResource, contextParams, i, entry) ==
    IF i > Len(protectedResource.settings)
    THEN IF entry = 0 THEN Resolved(protectedResource.resource.defaultSetting, 0)
         ELSE Resolved(protectedResource.settings[entry].setting, entry)
    ELSE Bind(protectedResource.settings[i], LAMBDA resourceConfig :
             Bind(checkIfEnabled(resourceConfig.policySetting, contextParams), LAMBDA enabled :
             Bind(IF entry = 0 THEN protectedResource.resource.defaultSetting
                             ELSE protectedResource.settings[entry].setting, LAMBDA finalSetting :
            IF enabled.kind = "throw" THEN Thrown(enabled.val)
            ELSE IF IsTruthy(enabled) /\ PriorityGreater(finalSetting, resourceConfig.setting)
            THEN MutResolveDefaultCompetes(protectedResource, contextParams, i + 1, i)
            ELSE MutResolveDefaultCompetes(protectedResource, contextParams, i + 1, entry))))

RECURSIVE MutResolveIgnoresConditions(_, _, _, _)
MutResolveIgnoresConditions(protectedResource, contextParams, i, entry) ==
    IF i > Len(protectedResource.settings)
    THEN IF entry = 0 THEN Resolved(protectedResource.resource.defaultSetting, 0)
         ELSE Resolved(protectedResource.settings[entry].setting, entry)
    ELSE Bind(protectedResource.settings[i], LAMBDA resourceConfig :
            IF \/ entry = 0
               \/ PriorityGreater(protectedResource.settings[entry].setting,
                                  resourceConfig.setting)
            THEN MutResolveIgnoresConditions(protectedResource, contextParams, i + 1, i)
            ELSE MutResolveIgnoresConditions(protectedResource, contextParams, i + 1, entry))

RECURSIVE MutThrowDisablesEntry(_, _, _, _)
MutThrowDisablesEntry(protectedResource, contextParams, i, entry) ==
    IF i > Len(protectedResource.settings)
    THEN IF entry = 0 THEN Resolved(protectedResource.resource.defaultSetting, 0)
         ELSE Resolved(protectedResource.settings[entry].setting, entry)
    ELSE Bind(protectedResource.settings[i], LAMBDA resourceConfig :
             Bind(checkIfEnabled(resourceConfig.policySetting, contextParams), LAMBDA enabled :
            IF /\ enabled.kind # "throw"
               /\ IsTruthy(enabled)
               /\ \/ entry = 0
                  \/ PriorityGreater(protectedResource.settings[entry].setting,
                                     resourceConfig.setting)
            THEN MutThrowDisablesEntry(protectedResource, contextParams, i + 1, i)
            ELSE MutThrowDisablesEntry(protectedResource, contextParams, i + 1, entry)))

\* computeResourceSetting as its comment describes it: no setting when no
\* policy is valid for the resource.
RECURSIVE MutResolveNothingWithoutEntry(_, _, _, _)
MutResolveNothingWithoutEntry(protectedResource, contextParams, i, entry) ==
    IF i > Len(protectedResource.settings)
    THEN IF entry = 0 THEN Resolved(EmptyObject, 0)
         ELSE Resolved(protectedResource.settings[entry].setting, entry)
    ELSE Bind(protectedResource.settings[i], LAMBDA resourceConfig :
             Bind(checkIfEnabled(resourceConfig.policySetting, contextParams), LAMBDA enabled :
            IF enabled.kind = "throw" THEN Thrown(enabled.val)
            ELSE IF /\ IsTruthy(enabled)
                    /\ \/ entry = 0
                       \/ PriorityGreater(protectedResource.settings[entry].setting,
                                          resourceConfig.setting)
            THEN MutResolveNothingWithoutEntry(protectedResource, contextParams, i + 1, i)
            ELSE MutResolveNothingWithoutEntry(protectedResource, contextParams, i + 1, entry)))

RECURSIVE ResolveFrom(_, _, _, _)
ResolveFrom(protectedResource, contextParams, i, entry) ==
    IF i > Len(protectedResource.settings)
    THEN IF entry = 0 THEN Resolved(protectedResource.resource.defaultSetting, 0)
         ELSE Resolved(protectedResource.settings[entry].setting, entry)
    ELSE Bind(protectedResource.settings[i], LAMBDA resourceConfig :
             Bind(checkIfEnabled(resourceConfig.policySetting, contextParams), LAMBDA enabled :
            IF enabled.kind = "throw" THEN Thrown(enabled.val)
            ELSE IF /\ IsTruthy(enabled)
                    /\ \/ entry = 0
                       \/ PriorityGreater(protectedResource.settings[entry].setting,
                                          resourceConfig.setting)
            THEN ResolveFrom(protectedResource, contextParams, i + 1, i)
            ELSE ResolveFrom(protectedResource, contextParams, i + 1, entry)))

\* computeResourceSetting (lines 412-446), which calculateSetting (478-480)
\* calls on its own protected resource.
computeResourceSetting(protectedResource, contextParams) ==
    ResolveFrom(protectedResource, contextParams, 1, 0)

(***************************************************************************)
(* The host: resource types, dictionary entries, policies, condition       *)
(* factories and role stores a host application may configure.             *)
(***************************************************************************)

Setting(value, priority) == [value |-> value, priority |-> priority]

\* A client resource type, as the one of security.service.spec.js lines 65-72.
MenuType ==
    [name |-> "AppMenuItem", env |-> {"client"},
     settings |-> <<Setting("show", 1), Setting("hide", 0)>>]

\* A server resource type: two of its settings share the lowest priority.
ApiType ==
    [name |-> "Api", env |-> {"server"}, apply |-> "apiApply",
     settings |-> <<Setting("deny", 1), Setting("allow", 0), Setting("audit", 0)>>]

\* A resource type that lists one setting value twice.
ApiTypeRepeatedSetting ==
    [ApiType EXCEPT !.settings = ApiType.settings \o <<Setting("allow", 2)>>]

\* Resource types that break one rule of addResourceType each.
ApiTypeNoApply == [name |-> "Api", env |-> {"server"}, settings |-> ApiType.settings]
TypeNoEnv == [name |-> "Widget", settings |-> MenuType.settings]
TypeNoName == [env |-> {"client"}, settings |-> MenuType.settings]

AccountApi ==
    [name |-> "AccountApi", type |-> "Api", locator |-> "api.account",
     defaultSetting |-> "deny"]

AccountMenu ==
    [name |-> "AccountMenu", type |-> "AppMenuItem", locator |-> "menu.account",
     defaultSetting |-> "show"]

\* A dictionary entry under the locator of AccountApi.
AccountMenuSameLocator == [AccountMenu EXCEPT !.locator = AccountApi.locator]

\* Dictionary entries that break one rule of addResourceToDictionary each.
EntryGhostType == [AccountApi EXCEPT !.name = "GhostApi", !.type = "Ghost"]
EntryBadDefault == [AccountApi EXCEPT !.name = "BadApi", !.defaultSetting = "show"]
EntryNoLocator == [name |-> "NoLoc", type |-> "Api", defaultSetting |-> "deny"]

Grant(resource, setting) == [resource |-> resource, setting |-> setting]

AccountPolicy ==
    [name |-> "Account", description |-> "Account Security Policy", defaultSetting |-> Null,
     settings |-> <<
        [setting |-> "read",
         protectedResources |-> <<Grant("AccountMenu", "show"), Grant("AccountApi", "allow")>>],
        [setting |-> "own", condition |-> <<"acct", ".", "isOwner">>,
         protectedResources |-> <<Grant("AccountApi", "audit")>>],
        [setting |-> "watch", protectedResources |-> <<Grant("AccountApi", "audit")>>],
        [setting |-> "none"] >>]

AuditPolicy ==
    [name |-> "Audit", defaultSetting |-> "on",
     settings |-> <<
        [setting |-> "on", condition |-> <<"acct", ".", "asyncNever">>,
         protectedResources |-> <<Grant("AccountApi", "deny")>>] >>]

\* Policies that break one rule of addPolicy each.
PolicyGhostResource ==
    [name |-> "Ghostly",
     settings |-> <<[setting |-> "read", protectedResources |-> <<Grant("Ghost", "allow")>>]>>]
PolicyBadSetting ==
    [name |-> "Wrong",
     settings |-> <<[setting |-> "read", protectedResources |-> <<Grant("AccountApi", "show")>>]>>]
PolicyBadDefault == [AuditPolicy EXCEPT !.name = "Defaultless", !.defaultSetting = "off"]
PolicyNoSettings == [name |-> "Empty"]
PolicyNoLabel ==
    [name |-> "Unlabelled",
     settings |-> <<[protectedResources |-> <<Grant("AccountApi", "allow")>>]>>]

\* The condition factory of the host; its functions are CondFn below.
AcctFactory ==
    [factory |-> "acct", fns |-> {"isOwner", "never", "asyncNever", "asyncIsOwner", "broken"}]

\* The lists a configuration is put together from.
MaxListLen == 2

ListsOver(pool) ==
    UNION {[1..n -> pool] : n \in 0..MaxListLen}

Config(store, rts, dict, pols) ==
    [defaultRole |-> "guest", roleStore |-> store, conditionFactories |-> <<AcctFactory>>,
     resourceTypes |-> rts, dictionary |-> dict, policies |-> pols]

\* The configuration of security.service.spec.js lines 36-46 (one server type
\* in place of screenForm), and the one of lines 48-62.
ValidConfig == Config("storeA", <<MenuType, ApiType>>, <<AccountMenu, AccountApi>>,
                      <<AccountPolicy, AuditPolicy>>)
EmptyConfig == Config("storeA", <<>>, <<>>, <<AccountPolicy>>)

\* Configurations with a role store of their own.
OtherValidConfig == Config("storeB", <<ApiType>>, <<AccountApi>>, <<AuditPolicy>>)
OtherBrokenConfig == Config("storeB", <<ApiType, ApiType>>, <<AccountApi>>, <<AuditPolicy>>)
NoDefaultRoleConfig == [ValidConfig EXCEPT !.defaultRole = ""]

\* The configuration "should validate policy" loads (security.service.spec.js
\* lines 36-46): one policy, whose defaultSetting is null, and no condition
\* factory.
SpecTestConfig ==
    [ValidConfig EXCEPT !.policies = <<AccountPolicy>>, !.conditionFactories = <<>>]

\* The configurations load is called with: ValidConfig with one of its three
\* collections replaced, and the configurations above.
TypeLists ==
    ListsOver({ApiType, ApiTypeNoApply}) \cup
    {<<MenuType, ApiType>>, <<MenuType, TypeNoEnv>>, <<TypeNoName>>, <<MenuType, MenuType>>,
     <<MenuType, ApiTypeRepeatedSetting>>}
EntryLists ==
    ListsOver({AccountApi, AccountMenu}) \cup
    {<<AccountApi, EntryGhostType>>, <<AccountApi, EntryBadDefault>>, <<EntryNoLocator>>,
     <<AccountMenuSameLocator, AccountApi>>}
PolicyLists ==
    ListsOver({AuditPolicy, PolicyGhostResource}) \cup
    {<<AccountPolicy>>, <<AccountPolicy, AuditPolicy>>, <<PolicyBadSetting>>,
     <<PolicyBadDefault>>, <<PolicyNoSettings>>, <<PolicyNoLabel>>}

LoadConfigs ==
    {Config("storeA", rts, ValidConfig.dictionary, ValidConfig.policies) : rts \in TypeLists}
    \cup {Config("storeA", ValidConfig.resourceTypes, dict, ValidConfig.policies) :
            dict \in EntryLists}
    \cup {Config("storeA", ValidConfig.resourceTypes, ValidConfig.dictionary, pols) :
            pols \in PolicyLists}
    \cup {EmptyConfig, OtherValidConfig, OtherBrokenConfig, NoDefaultRoleConfig,
          SpecTestConfig}

(***************************************************************************)
(* security.service.js: load                                               *)
(***************************************************************************)
NoSnapshot == [loaded |-> FALSE]
NoFindRole == [defined |-> FALSE]
NoLoad == [called |-> FALSE]
Idle == [pc |-> "idle"]
NoResource == [compiled |-> FALSE]
NoCalc == [called |-> FALSE]

ModuleVars ==
    [resourceTypes |-> resourceTypes, dictionary |-> dictionary,
     policies |-> policies, conditionFactories |-> conditionFactories]

\* findRole as load assigns it (lines 40-48): a closure over the configuration.
FindRoleOf(securityConfiguration) ==
    [defined |-> TRUE, roleStore |-> securityConfiguration.roleStore,
     defaultRole |-> securityConfiguration.defaultRole]

\* What the call of load before this one did: "none" when there was none or it
\* threw, else whether it succeeded with this configuration or with another.
PreviousLoad(securityConfiguration) ==
    IF ~(loadOutcome.called /\ ~loadOutcome.threw) THEN "none"
    ELSE IF loadOutcome.security = securityConfiguration THEN "same"
    ELSE "other"

\* load (lines 36-53).
Load(securityConfiguration) ==
    /\ req.pc \in {"idle", "awaitRole", "awaitApply", "done", "awaitRoleClient", "collected"}
    /\ IF ~Truthy(securityConfiguration, "defaultRole")
       THEN /\ loadOutcome' =
                [called |-> TRUE, security |-> securityConfiguration, threw |-> TRUE,
                 message |-> <<"No default role provided to initialize system security">>,
                 logged |-> <<>>, validated |-> FALSE,
                 after |-> PreviousLoad(securityConfiguration)]
            /\ UNCHANGED <<resourceTypes, dictionary, policies, conditionFactories,
                           systemSecurityData, findRole>>
       ELSE \E r \in {initSecurity(ModuleVars, securityConfiguration)} :
               /\ findRole' = FindRoleOf(securityConfiguration)
               /\ resourceTypes' = r.mod.resourceTypes
               /\ dictionary' = r.mod.dictionary
               /\ policies' = r.mod.policies
               /\ conditionFactories' = r.mod.conditionFactories
               /\ systemSecurityData' =
                    IF r.threw THEN systemSecurityData
                    ELSE Assign([loaded |-> TRUE], r.returned)
               /\ loadOutcome' =
                    [called |-> TRUE, security |-> securityConfiguration, threw |-> r.threw,
                     message |-> r.message, logged |-> r.logged, validated |-> TRUE,
                     after |-> PreviousLoad(securityConfiguration)]
    /\ UNCHANGED <<req, pr, calc>>

InitLoad ==
    /\ resourceTypes = <<>>
    /\ dictionary = <<>>
    /\ policies = <<>>
    /\ conditionFactories = <<>>
    /\ systemSecurityData = NoSnapshot
    /\ findRole = NoFindRole
    /\ loadOutcome = NoLoad
    /\ req = Idle
    /\ pr = NoResource
    /\ calc = NoCalc

NextLoad == \E c \in LoadConfigs : Load(c)

SpecLoad == InitLoad /\ [][NextLoad]_vars

(***************************************************************************)
(* security.service.js: the policies of a user's role                      *)
(*                                                                         *)
(* A setting a role selects is the object {value, params}; a bare label is *)
(* the object with the value alone, which the code treats alike.           *)
(***************************************************************************)

\* collectRolePolicySettingDefinitions (lines 360-380).
RECURSIVE CollectFrom(_, _, _, _)
CollectFrom(rolePolicySettings, policyDefinition, i, done) ==
    IF i > Len(rolePolicySettings) THEN Ok(done)
    ELSE Bind(rolePolicySettings[i], LAMBDA setting :
             Bind(FirstIndex(policyDefinition.settings,
                             LAMBDA c : Get(c, "setting") = Get(setting, "value")), LAMBDA k :
            IF k = 0
            THEN Thrown(<<"Setting [", Get(setting, "value"), "] does NOT exist for policy [",
                          Get(policyDefinition, "name"), "]">>)
            ELSE CollectFrom(rolePolicySettings, policyDefinition, i + 1,
                    Append(done, IF Has(setting, "params")
                                 THEN Assign(policyDefinition.settings[k],
                                             [params |-> setting.params])
                                 ELSE policyDefinition.settings[k]))))

collectRolePolicySettingDefinitions(rolePolicySettings, policyDefinition) ==
    CollectFrom(rolePolicySettings, policyDefinition, 1, <<>>)

\* The forEach of generateRolePolicies over systemSecurityData.policies
\* (lines 326-349).
RECURSIVE MutRolePoliciesWithoutDefault(_, _, _, _)
MutRolePoliciesWithoutDefault(userRole, pols, i, userPolicies) ==
    IF i > Len(pols) THEN Ok(userPolicies)
    ELSE Bind(IndexByName(IF Has(userRole, "policies") THEN userRole.policies ELSE <<>>,
                          pols[i].name), LAMBDA k :
         Bind(IF k # 0 /\ userRole.policies[k].settings # <<>>
              THEN collectRolePolicySettingDefinitions(userRole.policies[k].settings, pols[i])
              ELSE Ok(<<>>), LAMBDA settings :
            IF settings.threw THEN settings
            ELSE MutRolePoliciesWithoutDefault(userRole, pols, i + 1,
                    IF settings.val # <<>>
                    THEN Append(userPolicies,
                                [name |-> pols[i].name, settings |-> settings.val])
                    ELSE userPolicies)))

RECURSIVE RolePoliciesFrom(_, _, _, _)
RolePoliciesFrom(userRole, pols, i, userPolicies) ==
    IF i > Len(pols) THEN Ok(userPolicies)
    ELSE Bind(pols[i], LAMBDA policyDefinition :
             Bind(IF Has(userRole, "policies") THEN userRole.policies ELSE <<>>, LAMBDA rolePolicies :
             Bind(IndexByName(rolePolicies, policyDefinition.name), LAMBDA k :
             Bind(IF k # 0 /\ rolePolicies[k].settings # <<>>
                THEN collectRolePolicySettingDefinitions(rolePolicies[k].settings,
                                                         policyDefinition)
                ELSE IF Truthy(policyDefinition, "defaultSetting")
                THEN collectRolePolicySettingDefinitions(
                        <<[value |-> policyDefinition.defaultSetting]>>, policyDefinition)
                ELSE Ok(<<>>), LAMBDA settings :
            IF settings.threw THEN settings
            ELSE RolePoliciesFrom(userRole, pols, i + 1,
                    IF settings.val # <<>>
                    THEN Append(userPolicies,
                                [name |-> policyDefinition.name, settings |-> settings.val])
                    ELSE userPolicies)))))

\* generateRolePolicies (lines 323-351): it reads systemSecurityData when the
\* role lookup has answered.
generateRolePolicies(userRole, snapshot) ==
    IF ~snapshot.loaded
    THEN Thrown(<<"TypeError: Cannot read property 'policies' of undefined">>)
    ELSE RolePoliciesFrom(userRole, snapshot.policies, 1, <<>>)

\* The test of the filters of lines 206-208 and 266-270 on a resource name or
\* a dictionary entry: whether its type declares the environment, or the
\* Error of a lookup that fails.  dict and rts are what the module variables
\* dictionary and resourceTypes hold (the lookups search these).
TypeDeclares(rts, typeName, environment) ==
    Bind(findResourceType(rts, typeName), LAMBDA t :
       IF t.threw THEN t ELSE Ok(environment \in t.val.env))

GrantDeclares(dict, rts, grant, environment) ==
    Bind(findProtectedResourceByName(dict, Get(grant, "resource")), LAMBDA resource :
       IF ~resource.found
       THEN Thrown(<<"TypeError: Cannot read property 'type' of undefined">>)
       ELSE TypeDeclares(rts, Get(resource.val, "type"), environment))

\* _.filter with a test that may throw: the elements kept, or the first throw.
RECURSIVE FilterGrants(_, _, _, _, _, _)
FilterGrants(dict, rts, grants, environment, i, kept) ==
    IF i > Len(grants) THEN Ok(kept)
    ELSE Bind(GrantDeclares(dict, rts, grants[i], environment), LAMBDA t :
            IF t.threw THEN t
            ELSE FilterGrants(dict, rts, grants, environment, i + 1,
                              IF t.val THEN Append(kept, grants[i]) ELSE kept))

RECURSIVE FilterEntries(_, _, _, _, _)
FilterEntries(rts, entries, environment, i, kept) ==
    IF i > Len(entries) THEN Ok(kept)
    ELSE Bind(TypeDeclares(rts, Get(entries[i], "type"), environment), LAMBDA t :
            IF t.threw THEN t
            ELSE FilterEntries(rts, entries, environment, i + 1,
                               IF t.val THEN Append(kept, entries[i]) ELSE kept))

\* The forEach over policy.settings (lines 265-276).
RECURSIVE FilterPolicySettings(_, _, _, _, _, _)
FilterPolicySettings(dict, rts, settings, environment, j, kept) ==
    IF j > Len(settings) THEN Ok(kept)
    ELSE Bind(FilterGrants(dict, rts, settings[j].protectedResources, environment,
                               1, <<>>), LAMBDA g :
            IF g.threw THEN g
            ELSE FilterPolicySettings(dict, rts, settings, environment, j + 1,
                    IF g.val # <<>>
                    THEN Append(kept, Assign(settings[j], [protectedResources |-> g.val]))
                    ELSE kept))

\* filterPolicyContentByEnvironment (lines 260-284).
RECURSIVE FilterPolicies(_, _, _, _, _, _)
FilterPolicies(dict, rts, userPolicies, environment, i, kept) ==
    IF i > Len(userPolicies) THEN Ok(kept)
    ELSE Bind(FilterPolicySettings(dict, rts, userPolicies[i].settings, environment,
                                       1, <<>>), LAMBDA f :
            IF f.threw THEN f
            ELSE FilterPolicies(dict, rts, userPolicies, environment, i + 1,
                    IF f.val # <<>>
                    THEN Append(kept, Assign(userPolicies[i], [settings |-> f.val]))
                    ELSE kept))

filterPolicyContentByEnvironment(dict, rts, userPolicies, environment) ==
    FilterPolicies(dict, rts, userPolicies, environment, 1, <<>>)

\* user is null, or has no permissionRoleCode (line 93).
UnderNoRole(user) == Has(user, "null") \/ ~Truthy(user, "permissionRoleCode")

\* !user.permissionRoleCode || user.isTenantAdmin() (lines 198 and 293).
SecurityDeactivated(user) == ~Truthy(user, "permissionRoleCode") \/ user.tenantAdmin

\* generateUserSecurityDataByEnvironment (lines 197-220).  m holds the module
\* variables of security-definition.service.js, snapshot is systemSecurityData.
generateUserSecurityDataByEnvironment(m, snapshot, user, userPolicies, env) ==
    IF SecurityDeactivated(user)
    THEN Ok([env |-> env, user |-> user, description |-> "Admin - Full access"])
    ELSE Bind(filterPolicyContentByEnvironment(m.dictionary, m.resourceTypes,
                                                 userPolicies, env), LAMBDA filteredPolicies :
             Bind(FilterEntries(m.resourceTypes, snapshot.dictionary, env, 1, <<>>), LAMBDA filteredDictionary :
             Bind(SelectSeq(snapshot.resourceTypes, LAMBDA type : env \in type.env), LAMBDA filteredResourceTypes :
            IF filteredPolicies.threw THEN filteredPolicies
            ELSE IF filteredDictionary.threw THEN filteredDictionary
            ELSE Ok([policies |-> filteredPolicies.val,
                     dictionary |-> filteredDictionary.val,
                     resourceTypes |-> filteredResourceTypes,
                     env |-> env, user |-> user]))))

\* formatUserSecurityData (lines 232-248); revision, the time of the call, is
\* read by nothing in the engine and is left out.
formatUserSecurityData(securityData) ==
    Bind({k \in {"policies", "dictionary", "resourceTypes"} : Has(securityData, k)}, LAMBDA copied :
       Assign([id |-> 1, timestamp |-> EmptyObject,
               userId |-> Get(securityData.user, "id"),
               display |-> Get(securityData.user, "display")],
              [k \in copied |-> securityData[k]]))

\* The callback of collectClientUserPolicy (lines 145-147) on the role
\* policies: the client view, formatted.
collectClientUserPolicy(m, snapshot, user, userPolicies) ==
    Bind(generateUserSecurityDataByEnvironment(m, snapshot, user, userPolicies,
                                               "client"), LAMBDA data :
       IF data.threw THEN data ELSE Ok(formatUserSecurityData(data.val)))

\* The callbacks of collectServerUserPolicy (lines 158-161) on the role the
\* lookup answered: generateRolePolicies, then the server view, then
\* new UserPolicy.  The protected resource list, or the Error.
collectServerUserPolicy(m, snapshot, user, userPolicies) ==
    Bind(generateUserSecurityDataByEnvironment(m, snapshot, user, userPolicies,
                                                      "server"), LAMBDA data :
       IF data.threw THEN data
       ELSE compileSecurityData(formatUserSecurityData(data.val), m.conditionFactories))

(***************************************************************************)
(* What a call leaves in the objects of the snapshot                       *)
(***************************************************************************)
\* c = _.assign({}, object) followed by assignments to fields of c
\* (security.service.js lines 273-274 and 375-376,
\* security-definition.service.js lines 346-348 and 393-396): the object as
\* the assignments leave it, and the copy.
MutPolicySettingWrittenInPlace(object, fields) ==
    IF DOMAIN fields \subseteq {"params", "protectedResources"}
    THEN [object |-> Assign(object, fields), copy |-> Assign(object, fields)]
    ELSE [object |-> object, copy |-> Assign(object, fields)]

CopyThenWrite(object, fields) ==
    [object |-> object, copy |-> Assign(object, fields)]

\* The policy settings a list of policies holds under a policy name.
PolicySettingsNamed(pols, name) ==
    Bind(IndexByName(pols, name), LAMBDA k : IF k = 0 THEN <<>> ELSE pols[k].settings)

\* A dictionary entry of the snapshot after buildProtectedResources (lines
\* 346-348) has copied it, when the compiled list holds its protected resource.
EntryLeft(entry, protectedResourceList) ==
    Bind(FirstIndex(protectedResourceList,
                    LAMBDA o : Get(o.resource, "name") = Get(entry, "name")), LAMBDA r :
       IF r = 0 THEN entry
       ELSE CopyThenWrite(entry,
                [type |-> protectedResourceList[r].resource.type,
                 defaultSetting |-> protectedResourceList[r].resource.defaultSetting]).object)

\* A grant of the snapshot after addPolicyResourceSettingToProtectedResource
\* (lines 393-396) has copied it, when the compiled list holds its entry.
GrantLeft(policyName, label, grant, protectedResourceList) ==
    Bind(FirstIndex(protectedResourceList,
                    LAMBDA o : Get(o.resource, "name") = Get(grant, "resource")), LAMBDA r :
       IF r = 0 THEN grant
       ELSE Bind(FirstIndex(protectedResourceList[r].settings,
                     LAMBDA e : /\ e.policySetting.policy = policyName
                                /\ Get(e.policySetting, "setting") = label
                                /\ Get(e.setting, "value") = Get(grant, "setting")), LAMBDA e :
               IF e = 0 THEN grant
               ELSE CopyThenWrite(grant,
                        [policySetting |-> protectedResourceList[r].settings[e].policySetting,
                         resource |-> protectedResourceList[r].settings[e].resource,
                         setting |-> protectedResourceList[r].settings[e].setting]).object))

\* A policy setting of the snapshot after collectRolePolicySettingDefinitions
\* has copied it to give it the role's params (lines 374-377), or else
\* filterPolicyContentByEnvironment has copied it to give it the grants it
\* kept (lines 272-274); its grants are those the compilation leaves.
SettingLeft(policyName, policySetting, userPolicies, filteredPolicies, protectedResourceList) ==
    Bind(PolicySettingsNamed(userPolicies, policyName), LAMBDA selected :
    Bind(FirstIndex(selected, LAMBDA c : Get(c, "setting") = Get(policySetting, "setting")),
         LAMBDA u :
    Bind(PolicySettingsNamed(filteredPolicies, policyName), LAMBDA kept :
    Bind(FirstIndex(kept, LAMBDA c : Get(c, "setting") = Get(policySetting, "setting")),
         LAMBDA f :
    Bind(IF u # 0 /\ selected[u] # policySetting
         THEN CopyThenWrite(policySetting, [params |-> selected[u].params]).object
         ELSE IF u # 0 /\ f # 0
         THEN CopyThenWrite(policySetting,
                            [protectedResources |-> kept[f].protectedResources]).object
         ELSE policySetting, LAMBDA written :
       IF written # policySetting \/ ~Has(policySetting, "protectedResources") THEN written
       ELSE [policySetting EXCEPT !.protectedResources =
                [g \in 1..Len(@) |->
                    GrantLeft(policyName, Get(policySetting, "setting"), @[g],
                              protectedResourceList)]])))))

\* The snapshot after a call that generated userPolicies, filtered them to
\* filteredPolicies and compiled protectedResourceList (the empty list when
\* the call compiles nothing).
SnapshotAfterCall(snapshot, userPolicies, filteredPolicies, protectedResourceList) ==
    IF ~snapshot.loaded THEN snapshot
    ELSE [snapshot EXCEPT
            !.dictionary = [i \in 1..Len(@) |-> EntryLeft(@[i], protectedResourceList)],
            !.policies = [i \in 1..Len(@) |->
                [@[i] EXCEPT !.settings = [j \in 1..Len(@) |->
                    SettingLeft(Get(snapshot.policies[i], "name"), @[j], userPolicies,
                                filteredPolicies, protectedResourceList)]]]]

(***************************************************************************)
(* The host: users, role stores and apply implementations                  *)
(***************************************************************************)
NullUser == [null |-> TRUE]
User(id, code, admin) ==
    [id |-> id, display |-> id, permissionRoleCode |-> code, tenantAdmin |-> admin]
Anonymous == [id |-> "anonymous", display |-> "anonymous", tenantAdmin |-> FALSE]

Users ==
    {NullUser, Anonymous, User("root", "admin", TRUE), User("alice", "editor", FALSE),
     User("bob", "viewer", FALSE), User("olga", "owner", FALSE),
     User("rita", "reader", FALSE), User("wanda", "watcher", FALSE),
     User("bert", "broken", FALSE), User("ivy", "inverse", FALSE)}

RoleSetting(label) == [value |-> label]

EditorRole ==
    [description |-> "Editor",
     policies |-> <<[name |-> "Account",
                     settings |-> <<RoleSetting("read"), RoleSetting("own")>>]>>]
OwnerRole ==
    [description |-> "Owner",
     policies |-> <<[name |-> "Account", settings |-> <<RoleSetting("own")>>]>>]
ReaderRole ==
    [description |-> "Reader",
     policies |-> <<[name |-> "Account", settings |-> <<RoleSetting("read")>>],
                    [name |-> "Audit", settings |-> <<>>]>>]
WatcherRole ==
    [description |-> "Watcher",
     policies |-> <<[name |-> "Account",
                     settings |-> <<[value |-> "watch", params |-> [limit |-> 10]]>>]>>]
BrokenRole ==
    [description |-> "Broken",
     policies |-> <<[name |-> "Account", settings |-> <<RoleSetting("write")>>]>>]
\* A role that lists the policies, and the settings of a policy, the other
\* way round than the configuration does.
InverseRole ==
    [description |-> "Inverse",
     policies |-> <<[name |-> "Audit", settings |-> <<RoleSetting("on")>>],
                    [name |-> "Account",
                     settings |-> <<RoleSetting("own"), RoleSetting("read")>>]>>]
GuestRole == [description |-> "Guest", policies |-> <<>>]

NoRole == [none |-> TRUE]

\* securityConfiguration.findRoleByUser(user), per role store: the role the
\* promise resolves to, NoRole when it resolves to nothing.
findRoleByUser(roleStore, user) ==
    CASE roleStore = "storeA" /\ user.permissionRoleCode = "editor" -> EditorRole
      [] roleStore = "storeA" /\ user.permissionRoleCode = "owner" -> OwnerRole
      [] roleStore = "storeA" /\ user.permissionRoleCode = "reader" -> ReaderRole
      [] roleStore = "storeA" /\ user.permissionRoleCode = "watcher" -> WatcherRole
      [] roleStore = "storeA" /\ user.permissionRoleCode = "broken" -> BrokenRole
      [] roleStore = "storeA" /\ user.permissionRoleCode = "inverse" -> InverseRole
      [] roleStore = "storeB" /\ user.permissionRoleCode = "editor" -> ReaderRole
      [] OTHER -> NoRole

\* securityConfiguration.findRole(defaultRole).
findDefaultRole(roleStore, defaultRole) == GuestRole

\* findRole(user) as load defines it (lines 40-48), f being the closure.
FindRole(f, user) ==
    Bind(findRoleByUser(f.roleStore, user), LAMBDA policyRole :
       IF policyRole = NoRole THEN findDefaultRole(f.roleStore, f.defaultRole)
       ELSE policyRole)

\* The apply implementations of the host's resource types, on the setting
\* object and contextParams they are called with.
ApplyFn(apply, setting, contextParams) ==
    CASE apply # "apiApply" -> Throws(<<"TypeError: protectedResource.apply is not a function">>)
      [] Get(setting, "value") = "deny" -> Returns("false")
      [] Get(setting, "value") = "allow" ->
            IF contextParams = UndefinedObject
            THEN Throws(<<"TypeError: Cannot read property 'owner' of undefined">>)
            ELSE Returns("true")
      [] Get(setting, "value") = "audit" ->
            IF contextParams = UndefinedObject THEN PromiseOf(Null)
            ELSE IF contextParams.owner = "true" THEN PromiseOf("data")
            ELSE PromiseOf("false")
      [] OTHER -> Returns(Undefined)

(***************************************************************************)
(* security.service.js: applyResourcePolicy                                *)
(***************************************************************************)
\* contextParams a caller may pass; UndefinedObject when it passes none.
Contexts == {[owner |-> "true"], [owner |-> "false"], UndefinedObject}
Locators == {"api.account", "menu.account", "api.ghost"}

\* How the promise applyResourcePolicy returned has settled: resolved with
\* {result, isSetting}, rejected with the string 'RESOURCE_DENIED', or
\* rejected with (or, before any promise exists, thrown) an Error.
Allowed(result) == [settled |-> "resolved", result |-> result]
Denied == [settled |-> "rejected", isError |-> FALSE, reason |-> "RESOURCE_DENIED"]
Failed(message) == [settled |-> "rejected", isError |-> TRUE, message |-> message]

Request(user, locator, contextParams) ==
    [user |-> user, locator |-> locator, contextParams |-> contextParams]

\* A request that has ended: its outcome and what it did on the way (whether a
\* role was looked up, the setting calculateSetting returned, what apply was
\* called with and what it answered).
Done(request, outcome, trail) ==
    Assign(Assign(request, trail), [pc |-> "done", outcome |-> outcome])

NoTrail ==
    [roleLookup |-> FALSE, resolved |-> FALSE, applyInvoked |-> FALSE, applyCalls |-> <<>>]

\* What apply is called with (line 111): the setting calculateSetting returned
\* and the caller's contextParams.
MutApplyDefaultSetting(protectedResource, setting, contextParams) ==
    [setting |-> protectedResource.resource.defaultSetting, contextParams |-> contextParams]

ApplyArguments(protectedResource, setting, contextParams) ==
    [setting |-> setting, contextParams |-> contextParams]

\* Lines 105-111, in the callback of line 103: locate the protected resource,
\* calculate its setting, call apply.  The request after the call of apply:
\* ended, or suspended on the promise apply returned.
MutAllowsFalsyResult(request, userPolicy) ==
    Bind([roleLookup |-> TRUE, resolved |-> FALSE, applyInvoked |-> FALSE,
          applyCalls |-> <<>>], LAMBDA trail :
        Bind(getProtectedResourceByLocator(userPolicy.val, request.locator), LAMBDA protectedResource :
        Bind(computeResourceSetting(protectedResource.val, request.contextParams), LAMBDA setting :
        Bind(ApplyArguments(protectedResource.val, setting.val, request.contextParams), LAMBDA call :
        Bind(ApplyFn(protectedResource.val.apply, call.setting, call.contextParams), LAMBDA answer :
        Bind([roleLookup |-> TRUE, resolved |-> TRUE, setting |-> setting.val,
              applyInvoked |-> TRUE, applyCalls |-> <<call>>,
              applyAnswer |-> answer], LAMBDA applied :
       IF userPolicy.threw THEN Done(request, Failed(userPolicy.message), trail)
       ELSE IF protectedResource.threw
       THEN Done(request, Failed(protectedResource.message), trail)
       ELSE IF setting.threw THEN Done(request, Failed(setting.message), trail)
       ELSE IF answer.kind = "throw" THEN Done(request, Failed(answer.val), applied)
       ELSE IF answer.kind = "promise"
       THEN Assign(Assign(request, applied), [pc |-> "awaitApply"])
       ELSE Done(request, Allowed(answer.val), applied)))))))

ResolveAndApply(request, userPolicy) ==
    Bind([roleLookup |-> TRUE, resolved |-> FALSE, applyInvoked |-> FALSE,
          applyCalls |-> <<>>], LAMBDA trail :
        Bind(getProtectedResourceByLocator(userPolicy.val, request.locator), LAMBDA protectedResource :
        Bind(computeResourceSetting(protectedResource.val, request.contextParams), LAMBDA setting :
        Bind(ApplyArguments(protectedResource.val, setting.val, request.contextParams), LAMBDA call :
        Bind(ApplyFn(protectedResource.val.apply, call.setting, call.contextParams), LAMBDA answer :
        Bind([roleLookup |-> TRUE, resolved |-> TRUE, setting |-> setting.val,
              applyInvoked |-> TRUE, applyCalls |-> <<call>>,
              applyAnswer |-> answer], LAMBDA applied :
       IF userPolicy.threw THEN Done(request, Failed(userPolicy.message), trail)
       ELSE IF protectedResource.threw
       THEN Done(request, Failed(protectedResource.message), trail)
       ELSE IF setting.threw THEN Done(request, Failed(setting.message), trail)
       ELSE IF answer.kind = "throw" THEN Done(request, Failed(answer.val), applied)
       ELSE IF answer.kind = "promise"
       THEN Assign(Assign(request, applied), [pc |-> "awaitApply"])
       ELSE IF ~IsTruthyValue(answer.val) THEN Done(request, Denied, applied)
       ELSE Done(request, Allowed(answer.val), applied)))))))

\* applyResourcePolicy (lines 91-135) up to its first suspension.  A user
\* under no role is answered at once (lines 93-101).  For a tenant admin
\* findUserPolicyData (lines 293-296) resolves to [] without a role lookup and
\* the callbacks run on it.  Otherwise findRole(user) is called (line 300),
\* which throws before any load has defined findRole, and the request is
\* suspended on the role lookup; began records the snapshot and the collections
\* of the definition service as they were when the request began.
\* isSetting (security.service.js lines 124-133), the function an allowed
\* outcome carries: it reads the setting and type properties of the compiled
\* protected resource (which buildProtectedResourceObject does not set) and
\* looks the name up with the findSetting of the resource types, rts being
\* what the module variable resourceTypes holds when it is called.
isSetting(rts, protectedResource, settingName) ==
    IF settingName = Get(protectedResource, "setting") THEN Returns("true")
    ELSE Bind(findSetting(rts, Get(protectedResource, "type"), settingName), LAMBDA s :
            IF s.threw THEN Throws(s.message)
            ELSE IF ~s.found
            THEN Throws(<<"Inexisting setting [", settingName,
                          "] was passed to isSetting function  to check protected resource [",
                          Get(protectedResource, "type"), "]">>)
            ELSE Returns("false"))

\* applyResourcePolicy without the test of line 93.
MutBeginRequestWithoutNoRoleTest(user, locator, contextParams) ==
    LET request == Request(user, locator, contextParams)
    IN IF SecurityDeactivated(user)
       THEN [ResolveAndApply(request,
                 collectServerUserPolicy(ModuleVars, systemSecurityData, user, <<>>))
             EXCEPT !.roleLookup = FALSE]
       ELSE IF ~findRole.defined
       THEN Done(request,
                 Failed(<<"TypeError: findRole is not a function",
                          "- Invalid security policy for user ", user.display>>),
                 NoTrail)
       ELSE Assign(request, [pc |-> "awaitRole", findRole |-> findRole,
                             began |-> [snapshot |-> systemSecurityData, m |-> ModuleVars]])

BeginRequest(user, locator, contextParams) ==
    LET request == Request(user, locator, contextParams)
    IN IF UnderNoRole(user) THEN Done(request, Allowed("true"), NoTrail)
       ELSE IF SecurityDeactivated(user)
       THEN [ResolveAndApply(request,
                 collectServerUserPolicy(ModuleVars, systemSecurityData, user, <<>>))
             EXCEPT !.roleLookup = FALSE]
       ELSE IF ~findRole.defined
       THEN Done(request,
                 Failed(<<"TypeError: findRole is not a function",
                          "- Invalid security policy for user ", user.display>>),
                 NoTrail)
       ELSE Assign(request, [pc |-> "awaitRole", findRole |-> findRole,
                             began |-> [snapshot |-> systemSecurityData, m |-> ModuleVars]])

ApplyResourcePolicy(user, locator, contextParams) ==
    /\ req.pc \in {"idle", "done", "collected"}
    /\ req' = BeginRequest(user, locator, contextParams)
    /\ UNCHANGED <<resourceTypes, dictionary, policies, conditionFactories,
                   systemSecurityData, findRole, loadOutcome, pr, calc>>

\* The callbacks that run when the role lookup answers: generateRolePolicies
\* (line 301), then those of collectServerUserPolicy and of
\* applyResourcePolicy.  f is the findRole the request called, m and snapshot
\* what the callbacks read.
AnswerRoleLookup(suspended, f, m, snapshot) ==
    Bind(Request(suspended.user, suspended.locator, suspended.contextParams), LAMBDA request :
    Bind(FindRole(f, suspended.user), LAMBDA userRole :
    Bind(generateRolePolicies(userRole, snapshot), LAMBDA userPolicies :
       IF userPolicies.threw
       THEN Done(request,
                 Failed(userPolicies.message \o
                        <<"- Invalid security policy for user ", suspended.user.display>>),
                 [roleLookup |-> TRUE, resolved |-> FALSE, applyInvoked |-> FALSE,
                  applyCalls |-> <<>>])
       ELSE Assign(ResolveAndApply(request,
                      collectServerUserPolicy(m, snapshot, suspended.user,
                                              userPolicies.val)),
                   [userRole |-> userRole, userPolicies |-> userPolicies.val]))))

\* The role lookup answers: the callbacks read systemSecurityData and the
\* collections of the definition service as they are now.
RoleLookupAnswers ==
    /\ req.pc = "awaitRole"
    /\ req' = AnswerRoleLookup(req, req.findRole, ModuleVars, systemSecurityData)
    /\ systemSecurityData' =
          Bind(generateRolePolicies(FindRole(req.findRole, req.user), systemSecurityData),
               LAMBDA userPolicies :
          IF userPolicies.threw THEN systemSecurityData
          ELSE Bind(filterPolicyContentByEnvironment(dictionary, resourceTypes,
                                                     userPolicies.val, "server"),
                    LAMBDA filteredPolicies :
               Bind(collectServerUserPolicy(ModuleVars, systemSecurityData, req.user,
                                            userPolicies.val), LAMBDA userPolicy :
                  SnapshotAfterCall(systemSecurityData, userPolicies.val,
                                    IF filteredPolicies.threw THEN <<>>
                                    ELSE filteredPolicies.val,
                                    IF userPolicy.threw THEN <<>> ELSE userPolicy.val))))
    /\ UNCHANGED <<resourceTypes, dictionary, policies, conditionFactories,
                   findRole, loadOutcome, pr, calc>>

\* collectClientUserPolicy (lines 143-148) up to its suspension on the role
\* lookup: findUserPolicyData reads user.permissionRoleCode (line 293), answers
\* [] for a user security is deactivated for, and calls findRole otherwise.
BeginCollect(user) ==
    IF Has(user, "null")
    THEN [user |-> user, pc |-> "collected",
          collected |-> Thrown(<<"TypeError: Cannot read property 'permissionRoleCode' of null">>)]
    ELSE IF SecurityDeactivated(user)
    THEN [user |-> user, pc |-> "collected",
          collected |-> collectClientUserPolicy(ModuleVars, systemSecurityData, user, <<>>)]
    ELSE IF ~findRole.defined
    THEN [user |-> user, pc |-> "collected",
          collected |-> Thrown(<<"TypeError: findRole is not a function",
                                 "- Invalid security policy for user ", user.display>>)]
    ELSE [user |-> user, pc |-> "awaitRoleClient", findRole |-> findRole]

CollectClientUserPolicy(user) ==
    /\ req.pc \in {"idle", "done", "collected"}
    /\ req' = BeginCollect(user)
    /\ UNCHANGED <<resourceTypes, dictionary, policies, conditionFactories,
                   systemSecurityData, findRole, loadOutcome, pr, calc>>

\* The role lookup of collectClientUserPolicy answers: generateRolePolicies
\* (line 301), then the callback of lines 145-147.
ClientRoleLookupAnswers ==
    /\ req.pc = "awaitRoleClient"
    /\ LET userRole == FindRole(req.findRole, req.user)
           userPolicies == generateRolePolicies(userRole, systemSecurityData)
           filteredPolicies ==
               filterPolicyContentByEnvironment(dictionary, resourceTypes,
                   IF userPolicies.threw THEN <<>> ELSE userPolicies.val, "client")
       IN /\ req' =
               IF userPolicies.threw
               THEN [user |-> req.user, pc |-> "collected", userRole |-> userRole,
                     collected |->
                        Thrown(userPolicies.message \o
                               <<"- Invalid security policy for user ", req.user.display>>)]
               ELSE [user |-> req.user, pc |-> "collected", userRole |-> userRole,
                     userPolicies |-> userPolicies.val,
                     collected |-> collectClientUserPolicy(ModuleVars, systemSecurityData,
                                                           req.user, userPolicies.val)]
          /\ systemSecurityData' =
               IF userPolicies.threw THEN systemSecurityData
               ELSE SnapshotAfterCall(systemSecurityData, userPolicies.val,
                                      IF filteredPolicies.threw THEN <<>>
                                      ELSE filteredPolicies.val, <<>>)
    /\ UNCHANGED <<resourceTypes, dictionary, policies, conditionFactories,
                   findRole, loadOutcome, pr, calc>>

\* The promise apply returned is fulfilled: the callback of line 112.
ApplyAnswers ==
    /\ req.pc = "awaitApply"
    /\ req' = [req EXCEPT !.pc = "done"] @@
              [outcome |-> IF IsTruthyValue(req.applyAnswer.val)
                           THEN Allowed(req.applyAnswer.val) ELSE Denied]
    /\ UNCHANGED <<resourceTypes, dictionary, policies, conditionFactories,
                   systemSecurityData, findRole, loadOutcome, pr, calc>>

\* A policy whose condition names a factory the configuration does not list:
\* load accepts it, since load looks no condition up.
PolicyGhostFactory ==
    [name |-> "Account", defaultSetting |-> "read",
     settings |-> <<[setting |-> "read", condition |-> <<"ghost", ".", "isOwner">>,
                     protectedResources |-> <<Grant("AccountApi", "allow")>>]>>]
GhostFactoryConfig ==
    Config("storeA", <<ApiType>>, <<AccountApi>>, <<PolicyGhostFactory>>)

\* A policy whose conditions cannot be found: a string without a period, a
\* function the factory lacks, and an unlisted factory on a policy setting
\* that grants a client resource only.
PolicyMissingConditions ==
    [name |-> "Account", defaultSetting |-> Null,
     settings |-> <<[setting |-> "read", condition |-> <<"acctisOwner">>,
                     protectedResources |-> <<Grant("AccountApi", "allow")>>],
                    [setting |-> "own", condition |-> <<"acct", ".", "missing">>,
                     protectedResources |-> <<Grant("AccountApi", "audit")>>],
                    [setting |-> "watch", condition |-> <<"ghost", ".", "isOwner">>,
                     protectedResources |-> <<Grant("AccountMenu", "hide")>>]>>]
MissingConditionsConfig ==
    Config("storeA", <<MenuType, ApiType>>, <<AccountMenu, AccountApi>>,
           <<PolicyMissingConditions>>)

ServiceConfigs ==
    {ValidConfig, OtherValidConfig, OtherBrokenConfig, GhostFactoryConfig,
     MissingConditionsConfig}

Init == InitLoad

Next ==
    \/ \E c \in ServiceConfigs : Load(c)
    \/ \E user \in Users, locator \in Locators, contextParams \in Contexts :
          ApplyResourcePolicy(user, locator, contextParams)
    \/ RoleLookupAnswers
    \/ ApplyAnswers
    \/ \E user \in Users : CollectClientUserPolicy(user)
    \/ ClientRoleLookupAnswers

Spec == Init /\ [][Next]_vars

(***************************************************************************)
(* Resolution on its own: calculateSetting on the protected resource       *)
(* "api.account" of user policies compiled from generated policies.        *)
(***************************************************************************)
MaxEntries == 2

EntryConditions ==
    {<<>>} \cup {<<"acct", ".", f>> : f \in AcctFactory.fns}

\* One policy per contributed entry: a policy setting with the condition c
\* (none when c is empty) granting AccountApi the setting v.
EntryPolicy(i, c, v) ==
    [name |-> "P" \o ToString(i),
     settings |-> <<Assign([setting |-> "on",
                            protectedResources |-> <<Grant("AccountApi", v)>>],
                           IF c = <<>> THEN EmptyObject ELSE [condition |-> c])>>]

GeneratedPolicyLists ==
    UNION {{[i \in 1..n |-> EntryPolicy(i, choice[i][1], choice[i][2])] :
                choice \in [1..n -> EntryConditions \X {"deny", "allow", "audit"}]} :
           n \in 0..MaxEntries}

\* The data collectServerUserPolicy hands to new UserPolicy (security.service.js
\* lines 159-160): the server view of a dictionary, its types and policies.
GeneratedSecurityData ==
    {[dictionary |-> <<[AccountApi EXCEPT !.defaultSetting = d]>>,
      resourceTypes |-> <<ApiType>>, policies |-> pols] :
        d \in {"deny", "audit"}, pols \in GeneratedPolicyLists}

CompiledResource(securityData, locator) ==
    Bind(compileSecurityData(securityData, <<AcctFactory>>), LAMBDA list :
       getProtectedResourceByLocator(list.val, locator).val)

\* protectedResource.calculateSetting(contextParams) (lines 478-480).
CalculateSetting(contextParams) ==
    /\ pr.compiled
    /\ calc' = [called |-> TRUE, contextParams |-> contextParams,
                result |-> computeResourceSetting(pr.protectedResource, contextParams)]
    /\ UNCHANGED <<resourceTypes, dictionary, policies, conditionFactories,
                   systemSecurityData, findRole, loadOutcome, req, pr>>

InitResolve ==
    /\ resourceTypes = <<>>
    /\ dictionary = <<>>
    /\ policies = <<>>
    /\ conditionFactories = <<>>
    /\ systemSecurityData = NoSnapshot
    /\ findRole = NoFindRole
    /\ loadOutcome = NoLoad
    /\ req = Idle
    /\ pr \in {[compiled |-> TRUE,
                protectedResource |-> CompiledResource(sd, "api.account")] :
                    sd \in GeneratedSecurityData}
    /\ calc = NoCalc

NextResolve == \E contextParams \in Contexts : CalculateSetting(contextParams)

SpecResolve == InitResolve /\ [][NextResolve]_vars

(***************************************************************************)
(* Compilation of grants and dictionary entries that carry params          *)
(***************************************************************************)
\* The params a grant or a dictionary entry may carry: none, params that name
\* the keys of a setting definition, and params that name another key.
ParamSets == {EmptyObject, [value |-> "allow", priority |-> -1], [limit |-> 10]}

\* o.params = params, left out when there are none.
WithParams(o, params) == IF params = EmptyObject THEN o ELSE Assign(o, [params |-> params])

\* One policy per contributed entry, as EntryPolicy, the grant carrying params.
ParamsPolicy(i, c, v, params) ==
    [name |-> "P" \o ToString(i),
     settings |-> <<Assign([setting |-> "on",
                            protectedResources |->
                                <<WithParams(Grant("AccountApi", v), params)>>],
                           IF c = <<>> THEN EmptyObject ELSE [condition |-> c])>>]

ParamsPolicyLists ==
    UNION {{[i \in 1..n |-> ParamsPolicy(i, choice[i][1], choice[i][2], choice[i][3])] :
                choice \in [1..n -> {<<>>, <<"acct", ".", "isOwner">>}
                                       \X {"deny", "allow", "audit"} \X ParamSets]} :
           n \in 0..MaxEntries}

ParamsSecurityData ==
    {[dictionary |-> <<WithParams([AccountApi EXCEPT !.defaultSetting = d], params)>>,
      resourceTypes |-> <<ApiType>>, policies |-> pols] :
        d \in {"deny", "audit"}, params \in ParamSets, pols \in ParamsPolicyLists}

\* new UserPolicy(securityData) (lines 306-307); the data it was given is kept
\* beside the protected resource compiled from it.
InitMerge ==
    /\ resourceTypes = <<>>
    /\ dictionary = <<>>
    /\ policies = <<>>
    /\ conditionFactories = <<>>
    /\ systemSecurityData = NoSnapshot
    /\ findRole = NoFindRole
    /\ loadOutcome = NoLoad
    /\ req = Idle
    /\ pr \in {[compiled |-> TRUE,
                protectedResource |-> CompiledResource(sd, "api.account"),
                securityData |-> sd] : sd \in ParamsSecurityData}
    /\ calc = NoCalc

NextMerge == \E contextParams \in Contexts : CalculateSetting(contextParams)

SpecMerge == InitMerge /\ [][NextMerge]_vars

(***************************************************************************)
(* What a holder of the snapshot sees: getSystemSecurityConfiguration and  *)
(* the lookups attached to the arrays of the object it returns.            *)
(***************************************************************************)

\* getSystemSecurityConfiguration (security.service.js lines 56-61).
getSystemSecurityConfiguration ==
    IF ~systemSecurityData.loaded THEN Thrown(<<"System security not initialized">>)
    ELSE Ok(systemSecurityData)

\* systemSecurityData.resourceTypes.find(type): findResourceType searches the
\* module variable resourceTypes, not the array it is attached to.
SnapshotFindResourceType(type) == findResourceType(resourceTypes, type)

\* systemSecurityData.resourceTypes.findSetting(typeName, setting).
SnapshotFindSetting(typeName, setting) == findSetting(resourceTypes, typeName, setting)

\* systemSecurityData.dictionary.findProtectedResourceByName(name).
SnapshotFindProtectedResourceByName(name) == findProtectedResourceByName(dictionary, name)

\* systemSecurityData.conditionFactories.find(factoryName).
SnapshotFindConditionFactory(factoryName) ==
    findConditionFactory(conditionFactories, factoryName)

(***************************************************************************)
(* Properties of the definition loader                                     *)
(***************************************************************************)
TypeNames == {"AppMenuItem", "Api", "Widget", "Ghost"}
SettingNames == {"show", "hide", "deny", "allow", "audit"}
ResourceNames == {"AccountApi", "AccountMenu", "GhostApi", "BadApi", "NoLoc", "Ghost"}
FactoryNames == {"acct", "ghost"}

\* The step is a call of load that threw while a snapshot was visible.
FailedLoadStep ==
    /\ systemSecurityData.loaded
    /\ loadOutcome'.called
    /\ loadOutcome'.threw

\* C1: a load that fails after an earlier load succeeded leaves the earlier
\* snapshot the only visible state: getSystemSecurityConfiguration returns
\* the same object, every lookup made through it (resourceTypes.find,
\* resourceTypes.findSetting, dictionary.findProtectedResourceByName,
\* conditionFactories.find) answers as before the call, and so does the role
\* lookup.
C1_FailedLoadKeepsEarlierSnapshot ==
    [][FailedLoadStep =>
        /\ systemSecurityData' = systemSecurityData
        /\ findRole' = findRole
        /\ \A t \in TypeNames :
            /\ SnapshotFindResourceType(t)' = SnapshotFindResourceType(t)
            /\ \A v \in SettingNames : SnapshotFindSetting(t, v)' = SnapshotFindSetting(t, v)
        /\ \A n \in ResourceNames :
            SnapshotFindProtectedResourceByName(n)' = SnapshotFindProtectedResourceByName(n)
        /\ \A f \in FactoryNames :
            SnapshotFindConditionFactory(f)' = SnapshotFindConditionFactory(f)]_vars

\* The part of C1 the code does keep: the object getSystemSecurityConfiguration
\* returns is not replaced by a load that throws.
C1_SnapshotObjectKept ==
    [][FailedLoadStep => systemSecurityData' = systemSecurityData]_vars

DeclaredSettings(rts, typeName) ==
    {s.value : s \in UNION {{t.settings[j] : j \in 1..Len(t.settings)} :
                 t \in {rts[i] : i \in {k \in 1..Len(rts) :
                            /\ Has(rts[k], "name") /\ rts[k].name = typeName
                            /\ Has(rts[k], "settings")}}}}

DeclaredTypes(rts) == {rts[i].name : i \in {k \in 1..Len(rts) : Has(rts[k], "name")}}

\* All grants of a list of policies.
GrantsOf(pols) ==
    UNION {UNION {{ps.protectedResources[g] : g \in 1..Len(ps.protectedResources)} :
                    ps \in {p.settings[j] : j \in {k \in 1..Len(p.settings) :
                                Has(p.settings[k], "protectedResources")}}} :
             p \in {pols[i] : i \in {k \in 1..Len(pols) : Has(pols[k], "settings")}}}

\* Every dictionary entry has a declared type and a default that is a setting
\* of that type; every grant names a dictionary entry and a setting of the
\* type of that entry.
ReferentiallyClosed(rts, dict, pols) ==
    /\ \A i \in 1..Len(dict) :
        /\ Get(dict[i], "type") \in DeclaredTypes(rts)
        /\ Get(dict[i], "defaultSetting") \in DeclaredSettings(rts, Get(dict[i], "type"))
    /\ \A g \in GrantsOf(pols) :
        \E i \in 1..Len(dict) :
            /\ Get(dict[i], "name") = Get(g, "resource")
            /\ Get(g, "setting") \in DeclaredSettings(rts, Get(dict[i], "type"))

\* C3: in every snapshot a successful load returned, every dictionary entry's
\* type is a declared resource type and its defaultSetting a setting of that
\* type, and every policy grant names a dictionary entry and a setting legal
\* for the type of that entry; a configuration that violates one of these
\* makes load throw, and no snapshot is returned for it.
C3_ReferentialClosure ==
    /\ systemSecurityData.loaded =>
         ReferentiallyClosed(systemSecurityData.resourceTypes,
                             systemSecurityData.dictionary, systemSecurityData.policies)
    /\ (loadOutcome.called /\ loadOutcome.validated /\
        ~ReferentiallyClosed(loadOutcome.security.resourceTypes,
                             loadOutcome.security.dictionary,
                             loadOutcome.security.policies))
         => loadOutcome.threw

\* A snapshot with dictionary entries and grants is visible, and the last
\* load was refused for a grant whose setting its resource's type does not
\* declare.
C3_Witness ==
    /\ systemSecurityData.loaded
    /\ systemSecurityData.dictionary # <<>>
    /\ GrantsOf(systemSecurityData.policies) # {}
    /\ loadOutcome.threw /\ loadOutcome.validated
    /\ loadOutcome.security.policies = <<PolicyBadSetting>>
    /\ ReferentiallyClosed(loadOutcome.security.resourceTypes,
                           loadOutcome.security.dictionary, <<>>)

\* The names of a list, with repetition: some name is carried by two entries.
HasDuplicateName(list) ==
    \E i, j \in 1..Len(list) :
        /\ i # j
        /\ Has(list[i], "name") /\ Has(list[j], "name")
        /\ list[i].name = list[j].name

\* C4: two resource types, two dictionary entries or two policies of the same
\* name make load throw, each kind of duplicate on its own; in every loaded
\* snapshot the names of resource types, of dictionary entries and of
\* policies are pairwise distinct.
C4_DuplicateNamesRefused ==
    /\ systemSecurityData.loaded =>
        /\ ~HasDuplicateName(systemSecurityData.resourceTypes)
        /\ ~HasDuplicateName(systemSecurityData.dictionary)
        /\ ~HasDuplicateName(systemSecurityData.policies)
    /\ (loadOutcome.called /\ loadOutcome.validated) =>
        /\ HasDuplicateName(loadOutcome.security.resourceTypes) => loadOutcome.threw
        /\ HasDuplicateName(loadOutcome.security.dictionary) => loadOutcome.threw
        /\ HasDuplicateName(loadOutcome.security.policies) => loadOutcome.threw

\* The last load was refused for two policies of one name, in a
\* configuration whose resource types and dictionary are those of a
\* configuration that loads.
C4_Witness ==
    /\ loadOutcome.called /\ loadOutcome.threw
    /\ loadOutcome.security.policies = <<AuditPolicy, AuditPolicy>>
    /\ loadOutcome.security.resourceTypes = ValidConfig.resourceTypes
    /\ loadOutcome.security.dictionary = ValidConfig.dictionary
    /\ loadOutcome.logged[1] = "Duplicated policy ["

(***************************************************************************)
(* Properties of calculateSetting                                          *)
(***************************************************************************)

\* The contributed entries of the protected resource under resolution.
Entries == pr.protectedResource.settings

\* What the predicate of a policy setting returns for contextParams, read
\* from the host's predicate itself: "true" when there is no condition.
ConditionOutcome(policySetting, contextParams) ==
    IF ~Has(policySetting, "condition") THEN Returns("true")
    ELSE CondFn(policySetting.condition[Len(policySetting.condition)],
                ParamsOf(policySetting), contextParams)

OutcomeOf(i) == ConditionOutcome(Entries[i].policySetting, calc.contextParams)

\* The entries line 423 takes as enabled in the call recorded in calc: those
\* whose predicate returned a truthy value.
EnabledEntries == {i \in 1..Len(Entries) : IsTruthy(OutcomeOf(i))}

SomePredicateThrew == \E i \in 1..Len(Entries) : OutcomeOf(i).kind = "throw"

C7_LowestPriorityFirstWins ==
    (calc.called /\ ~calc.result.threw /\ EnabledEntries # {}) =>
        /\ calc.result.entry \in EnabledEntries
        /\ \A j \in EnabledEntries :
            /\ Entries[calc.result.entry].setting.priority <= Entries[j].setting.priority
            /\ Entries[j].setting.priority = Entries[calc.result.entry].setting.priority
                  => calc.result.entry <= j
        /\ calc.result.val = Entries[calc.result.entry].setting

\* Two enabled entries with different settings of the lowest priority, behind
\* an enabled entry of a higher priority value: the first of the two is returned.
C7_Witness ==
    /\ calc.called /\ ~calc.result.threw
    /\ Len(Entries) >= 2
    /\ \E i, j \in EnabledEntries :
        /\ i < j
        /\ Entries[i].setting.priority = Entries[j].setting.priority
        /\ Entries[i].setting.value # Entries[j].setting.value
        /\ calc.result.entry = i
        /\ calc.result.val.value = Entries[i].setting.value
    /\ calc.result.val.priority < pr.protectedResource.resource.defaultSetting.priority

\* The protected resource without the entries whose index is in drop.
WithoutEntries(protectedResource, drop) ==
    LET keep == {i \in 1..Len(protectedResource.settings) : i \notin drop}
        \* the position in the kept sequence of entry i
        Nth(n) == CHOOSE i \in keep : Cardinality({k \in keep : k <= i}) = n
    IN [protectedResource EXCEPT
            !.settings = [n \in 1..Cardinality(keep) |-> protectedResource.settings[Nth(n)]]]

\* The entries whose predicate returned false in the call recorded in calc.
ReturnedFalse == {i \in 1..Len(Entries) : OutcomeOf(i) = Returns("false")}

\* C8: a policy setting without a condition is enabled for every
\* contextParams; a policy setting whose predicate returns false for the
\* call's contextParams contributes none of its grants to the selection in
\* that call (the call does what it does without these entries) and the
\* exclusion raises no error.
C8_ConditionGating ==
    calc.called =>
        /\ \A i \in 1..Len(Entries) :
            ~Has(Entries[i].policySetting, "condition") =>
                /\ \A c \in Contexts :
                      checkIfEnabled(Entries[i].policySetting, c) = Returns("true")
                /\ ~calc.result.threw => calc.result.entry # 0
        /\ ~calc.result.threw => calc.result.entry \notin ReturnedFalse
        /\ Bind(computeResourceSetting(
                              WithoutEntries(pr.protectedResource, ReturnedFalse),
                              calc.contextParams), LAMBDA without :
              /\ calc.result.threw = without.threw
              /\ ~calc.result.threw => calc.result.val = without.val)
        /\ calc.result.threw => SomePredicateThrew

\* An entry of the lowest priority is excluded because its predicate returned
\* false for these contextParams, and an entry without a condition is chosen.
C8_Witness ==
    /\ calc.called /\ ~calc.result.threw
    /\ calc.result.entry # 0
    /\ ~Has(Entries[calc.result.entry].policySetting, "condition")
    /\ \E i \in ReturnedFalse :
        /\ Has(calc.contextParams, "owner")
        /\ Entries[i].policySetting.checkIfEnabled.fn = "isOwner"
        /\ Entries[i].setting.priority < calc.result.val.priority

\* The predicate that returns synchronously what the predicate named fn
\* returns a promise of.
SynchronousTwin(fn) ==
    CASE fn = "asyncNever" -> "never"
      [] fn = "asyncIsOwner" -> "isOwner"
      [] OTHER -> fn

\* The protected resource with every predicate replaced by its synchronous twin.
WithSynchronousPredicates(protectedResource) ==
    [protectedResource EXCEPT
        !.settings = [i \in 1..Len(protectedResource.settings) |->
            IF protectedResource.settings[i].policySetting.checkIfEnabled.always
            THEN protectedResource.settings[i]
            ELSE [protectedResource.settings[i] EXCEPT
                    !.policySetting.checkIfEnabled.fn = SynchronousTwin(@)]]]

\* C9: resolution awaits each predicate in contributed-entry order: an entry
\* whose predicate returns a promise that resolves to false is discarded like
\* an entry whose predicate returns false synchronously, and the setting
\* resolved is the same in both cases.
C9_PromiseOfFalseDiscarded ==
    (calc.called /\ ~calc.result.threw) =>
        calc.result.val =
            computeResourceSetting(WithSynchronousPredicates(pr.protectedResource),
                                   calc.contextParams).val

(***************************************************************************)
(* Properties of applyResourcePolicy (specification Spec)                  *)
(***************************************************************************)

\* A locator no dictionary entry of any configuration carries.
UnknownLocator(locator) ==
    \A c \in ServiceConfigs : \A i \in 1..Len(c.dictionary) :
        Get(c.dictionary[i], "locator") # locator

RequestEnded == Has(req, "outcome") /\ req.pc = "done"

EndedInError == req.outcome.settled = "rejected" /\ req.outcome.isError

\* C5 as stated: a request for a locator bound to no protected resource ends
\* in an error for every user and every context, never in an allowed result.
C5_UnknownLocatorErrorForEveryUser ==
    (RequestEnded /\ UnknownLocator(req.locator)) => EndedInError

\* C5, for the users it holds for: a request of a user that has a
\* permissionRoleCode for a locator bound to no protected resource ends in an
\* error, whatever the context; no setting is calculated for it (so no
\* default setting is returned), apply is not called and the outcome is
\* neither allowed nor the denial.  A user without a permissionRoleCode (or no
\* user) is allowed with result true whatever the locator is.
C5_UnknownLocatorErrorUnderRole ==
    /\ (RequestEnded /\ UnknownLocator(req.locator) /\ ~UnderNoRole(req.user)) =>
          /\ EndedInError
          /\ ~req.resolved
          /\ ~req.applyInvoked
    /\ (RequestEnded /\ UnknownLocator(req.locator) /\ UnderNoRole(req.user)) =>
          req.outcome = Allowed("true")

\* A role was looked up and its policies compiled to a list that has protected
\* resources, and the locator is that of none of them.
C5_Witness ==
    /\ RequestEnded /\ UnknownLocator(req.locator)
    /\ req.roleLookup
    /\ systemSecurityData.loaded /\ systemSecurityData.dictionary # <<>>
    /\ req.outcome = Failed(<<"Protected resource [", req.locator, "] undefined">>)

\* The awaited result of apply, when apply was called and returned.
ApplyReturned == req.applyInvoked /\ req.applyAnswer.kind \in {"value", "promise"}

\* C10: for a user under a role, the request ends in the denial
\* 'RESOURCE_DENIED' exactly when apply was called and its awaited result is
\* falsy; a truthy awaited result is the result of the allowed outcome,
\* unchanged; and when apply was not called (unknown locator, missing
\* condition, throwing predicate, invalid role policy) or threw, the request
\* ends in an Error, which is not the denial.
C10_DeniedIffApplyFalsy ==
    (RequestEnded /\ ~UnderNoRole(req.user)) =>
        /\ req.outcome = Denied <=>
              (ApplyReturned /\ ~IsTruthyValue(req.applyAnswer.val))
        /\ (ApplyReturned /\ IsTruthyValue(req.applyAnswer.val)) =>
              req.outcome = Allowed(req.applyAnswer.val)
        /\ ~ApplyReturned => (EndedInError /\ req.outcome # Denied)

\* A request denied on the result of a promise apply returned.
C10_Witness ==
    /\ RequestEnded /\ ~UnderNoRole(req.user)
    /\ req.outcome = Denied
    /\ req.applyInvoked /\ req.applyAnswer = PromiseOf("false")

\* A request is in flight or has ended.
RequestBegun == req.pc \in {"awaitRole", "awaitApply", "done"}

\* The calls of apply the request has made so far.
ApplyCalls == IF Has(req, "applyCalls") THEN req.applyCalls ELSE <<>>

\* C11 as stated: every request that ends allowed or denied has resolved a
\* setting and has called apply exactly once, with that setting and the
\* caller's contextParams.
C11_EveryOutcomeFollowsResolution ==
    (RequestEnded /\ ~EndedInError) =>
        /\ req.resolved
        /\ req.applyCalls = <<[setting |-> req.setting, contextParams |-> req.contextParams]>>

\* The state part of C11 for a request of a user under a role: apply is called
\* at most once, only after the setting has been resolved, with exactly that
\* setting and the caller's contextParams; an allowed or denied outcome comes
\* after exactly one call of apply.  A request of a user under no role ends
\* allowed with neither resolution nor call of apply.
C11_ApplyOnceAfterResolution ==
    RequestBegun =>
        /\ Len(ApplyCalls) <= 1
        /\ ApplyCalls # <<>> =>
              /\ Get(req, "resolved") = TRUE
              /\ ApplyCalls[1] =
                    [setting |-> req.setting, contextParams |-> req.contextParams]
        /\ req.pc = "awaitApply" => Len(ApplyCalls) = 1
        /\ (RequestEnded /\ ~EndedInError /\ ~UnderNoRole(req.user)) =>
              (Get(req, "resolved") = TRUE /\ Len(ApplyCalls) = 1)
        /\ (RequestEnded /\ UnderNoRole(req.user)) =>
              (req.outcome = Allowed("true") /\ ~Get(req, "resolved") = TRUE /\ ApplyCalls = <<>>)

\* The step part of C11: an ended request (a denial included) is final, and the
\* request that follows it is the one its own arguments begin, whatever the
\* ended request was.
C11_EndedRequestLeavesNoTrace ==
    (req.pc = "done" /\ req' # req) =>
        IF Has(req', "locator")
        THEN req' = BeginRequest(req'.user, req'.locator, req'.contextParams)
        ELSE req' = BeginCollect(req'.user)

\* C11: for a user under a role a request resolves a setting, then calls apply
\* at most once with exactly that setting and the caller's contextParams, and
\* ends allowed, denied or in an error; a denial is final (no second call of
\* apply) and is not remembered by the request that follows.  A user under no
\* role is allowed without resolution.
C11_RequestLifecycle ==
    []C11_ApplyOnceAfterResolution /\ [][C11_EndedRequestLeavesNoTrace]_vars

\* A denial after one call of apply with a resolved setting that is not the
\* resource's default.
C11_Witness ==
    /\ RequestEnded /\ req.outcome = Denied
    /\ req.resolved /\ req.setting.value = "audit"
    /\ req.applyCalls = <<[setting |-> req.setting, contextParams |-> req.contextParams]>>

(***************************************************************************)
(* Properties of the role policies                                         *)
(***************************************************************************)

\* The labels a role selects for the policy of that name, <<>> when the role
\* does not name the policy or selects nothing for it.
RoleSelection(userRole, name) ==
    LET rolePolicies == IF Has(userRole, "policies") THEN userRole.policies ELSE <<>>
        k == IndexByName(rolePolicies, name)
    IN IF k = 0 THEN <<>>
       ELSE [j \in 1..Len(rolePolicies[k].settings) |-> rolePolicies[k].settings[j].value]

\* The labels the role policies are to hold for a policy of the snapshot.
ExpectedLabels(userRole, policyDefinition) ==
    IF RoleSelection(userRole, policyDefinition.name) # <<>>
    THEN RoleSelection(userRole, policyDefinition.name)
    ELSE IF Truthy(policyDefinition, "defaultSetting")
    THEN <<policyDefinition.defaultSetting>>
    ELSE <<>>

\* The policy settings the role policies hold under a policy name.
SettingsOf(userPolicies, name) ==
    LET k == IndexByName(userPolicies, name)
    IN IF k = 0 THEN <<>> ELSE userPolicies[k].settings

\* The names of the policies that contribute an entry to some protected
\* resource of a compiled list.
ContributingPolicies(protectedResourceList) ==
    UNION {{protectedResourceList[r].settings[e].policySetting.policy :
               e \in 1..Len(protectedResourceList[r].settings)} :
           r \in 1..Len(protectedResourceList)}

RolePoliciesAsSelected(userRole, userPolicies, pols) ==
    \A i \in 1..Len(pols) :
        LET held == SettingsOf(userPolicies, pols[i].name)
            expected == ExpectedLabels(userRole, pols[i])
        IN /\ Len(held) = Len(expected)
           /\ \A j \in 1..Len(held) :
                 /\ held[j].setting = expected[j]
                 /\ \E c \in 1..Len(pols[i].settings) :
                       /\ pols[i].settings[c].setting = expected[j]
                       /\ \A f \in DOMAIN pols[i].settings[c] :
                             Has(held[j], f) /\ held[j][f] = pols[i].settings[c][f]

\* C12: when the role lookup has answered and the role policies are generated,
\* they hold, for every policy of the snapshot, the policy settings the role
\* selected for it, or the policy's defaultSetting when the role selected none
\* and one is declared; and a policy with neither a selection nor a default is
\* absent from them and contributes no entry to any compiled protected
\* resource.
C12_RolePoliciesSelectionOrDefault ==
    [][(req.pc = "awaitRole" /\ Has(req', "userPolicies")) =>
          /\ RolePoliciesAsSelected(req'.userRole, req'.userPolicies,
                                    systemSecurityData.policies)
          /\ \A i \in 1..Len(systemSecurityData.policies) :
                ExpectedLabels(req'.userRole, systemSecurityData.policies[i]) = <<>> =>
                   /\ IndexByName(req'.userPolicies,
                                  systemSecurityData.policies[i].name) = 0
                   /\ Bind(collectServerUserPolicy(ModuleVars, systemSecurityData, req.user,
                                                   req'.userPolicies), LAMBDA compiled :
                         ~compiled.threw =>
                            systemSecurityData.policies[i].name
                               \notin ContributingPolicies(compiled.val))]_vars

\* The role selected nothing: the role policies hold the one policy that
\* declares a default, and nothing for the policy that declares none.
C12_Witness ==
    /\ RequestEnded /\ Has(req, "userPolicies")
    /\ req.userRole = GuestRole
    /\ req.resolved
    /\ Len(req.userPolicies) = 1
    /\ req.userPolicies[1].name = "Audit"
    /\ req.userPolicies[1].settings[1].setting = "on"

(***************************************************************************)
(* Properties of the setting objects                                       *)
(***************************************************************************)

\* The priority a resource type declares for a setting value.
PriorityOf(typeDef, value) == typeDef.settings[SettingIndex(typeDef, value)].priority

\* The setting object is the type's for the value asked for, and carries the
\* params' other keys.
BuiltFrom(built, typeDef, value, params) ==
    /\ built.value = value
    /\ built.priority = PriorityOf(typeDef, value)
    /\ \A k \in DOMAIN params \ {"value", "priority"} : Has(built, k) /\ built[k] = params[k]

\* The security data with the params of the grants and of the dictionary
\* entries taken away.
WithoutParams(o) == [k \in DOMAIN o \ {"params"} |-> o[k]]
StripParams(securityData) ==
    [securityData EXCEPT
        !.dictionary = [i \in 1..Len(@) |-> WithoutParams(@[i])],
        !.policies = [i \in 1..Len(@) |->
            [@[i] EXCEPT !.settings = [j \in 1..Len(@) |->
                [@[j] EXCEPT !.protectedResources =
                    [g \in 1..Len(@) |-> WithoutParams(@[g])]]]]]]

\* C13: the setting object compiled for a grant and for a resource's default
\* has the value and the priority of the resource type's setting definition
\* whatever the params carry, the params only adding their other keys; and
\* calculateSetting chooses the same entry as it does with the params taken
\* away.
C13_TypeValueAndPriorityWin ==
    Has(pr, "securityData") =>
        /\ Len(pr.protectedResource.settings) = Len(pr.securityData.policies)
        /\ \A i \in 1..Len(pr.securityData.policies) :
              BuiltFrom(pr.protectedResource.settings[i].setting, ApiType,
                        pr.securityData.policies[i].settings[1].protectedResources[1].setting,
                        ParamsOf(pr.securityData.policies[i].settings[1].protectedResources[1]))
        /\ BuiltFrom(pr.protectedResource.resource.defaultSetting, ApiType,
                     pr.securityData.dictionary[1].defaultSetting,
                     ParamsOf(pr.securityData.dictionary[1]))
        /\ calc.called =>
              Bind(computeResourceSetting(
                       CompiledResource(StripParams(pr.securityData), "api.account"),
                       calc.contextParams), LAMBDA plain :
                 /\ calc.result.threw = plain.threw
                 /\ ~plain.threw =>
                       /\ calc.result.entry = plain.entry
                       /\ calc.result.val.value = plain.val.value
                       /\ calc.result.val.priority = plain.val.priority)

\* A grant of deny whose params name the value allow and a lower priority
\* than any of the type, before a grant of allow: allow is chosen.
C13_Witness ==
    /\ Has(pr, "securityData") /\ calc.called /\ ~calc.result.threw
    /\ Len(pr.securityData.policies) = 2
    /\ pr.securityData.policies[1].settings[1].protectedResources[1]
          = [resource |-> "AccountApi", setting |-> "deny",
             params |-> [value |-> "allow", priority |-> -1]]
    /\ pr.securityData.policies[2].settings[1].protectedResources[1]
          = Grant("AccountApi", "allow")
    /\ ~Has(pr.securityData.policies[1].settings[1], "condition")
    /\ ~Has(pr.securityData.policies[2].settings[1], "condition")
    /\ calc.result.entry = 2
    /\ calc.result.val.value = "allow"

(***************************************************************************)
(* Properties of the condition lookup                                      *)
(***************************************************************************)

\* The condition names no function of a listed factory: its string has no
\* period, its factory is not listed, or the factory lacks the function.
MissingCondition(condition, cfs) ==
    \/ \A k \in 1..Len(condition) : condition[k] # "."
    \/ \A f \in 1..Len(cfs) : cfs[f].factory # Head(condition)
    \/ \E f \in 1..Len(cfs) :
          cfs[f].factory = Head(condition) /\ condition[Len(condition)] \notin cfs[f].fns

\* The grant is of a resource whose type declares the server environment.
ServerGrant(grant) ==
    \E d \in 1..Len(dictionary) :
       /\ dictionary[d].name = grant.resource
       /\ \E t \in 1..Len(resourceTypes) :
             resourceTypes[t].name = dictionary[d].type /\ "server" \in resourceTypes[t].env

\* The policy settings of the role policies that name a missing condition.
SelectedWithMissingCondition(userPolicies) ==
    {ps \in UNION {{userPolicies[i].settings[j] : j \in 1..Len(userPolicies[i].settings)} :
                      i \in 1..Len(userPolicies)} :
        Has(ps, "condition") /\ MissingCondition(ps.condition, conditionFactories)}

\* The step compiles the user policy, which fails: the request ends in the
\* error of the compilation, no setting resolved and no apply invoked.
CompilationFails ==
    Bind(collectServerUserPolicy(ModuleVars, systemSecurityData, req.user,
                                 req'.userPolicies), LAMBDA userPolicy :
       /\ userPolicy.threw
       /\ req'.pc = "done"
       /\ req'.outcome = Failed(userPolicy.message)
       /\ ~req'.resolved
       /\ req'.applyCalls = <<>>)

RolePoliciesCompiled == req.pc = "awaitRole" /\ Has(req', "userPolicies")

\* C14 as stated: whenever a policy setting selected for the user names a
\* missing condition, compiling the user policy fails.
C14_MissingConditionFailsCompilation ==
    [][(RolePoliciesCompiled /\ SelectedWithMissingCondition(req'.userPolicies) # {})
          => CompilationFails]_vars

\* C14: when a policy setting selected for the user names a missing condition
\* and grants a resource of the server environment, compiling the user policy
\* fails: the request ends in the error of the compilation, before any
\* condition is evaluated (no setting is resolved) and with no apply invoked.
C14_MissingConditionOfServerGrantFailsCompilation ==
    [][(/\ RolePoliciesCompiled
        /\ \E ps \in SelectedWithMissingCondition(req'.userPolicies) :
              \E g \in 1..Len(ps.protectedResources) : ServerGrant(ps.protectedResources[g]))
          => CompilationFails]_vars

\* A request under a role that selected a policy setting whose condition names
\* a function the factory lacks has ended in the error of the compilation.
C14_Witness ==
    /\ RequestEnded /\ Has(req, "userPolicies")
    /\ req.userRole = OwnerRole
    /\ req.userPolicies[1].settings[1].condition = <<"acct", ".", "missing">>
    /\ EndedInError
    /\ \E k \in 1..Len(req.outcome.message) :
          req.outcome.message[k] = "No condition implementation ["
    /\ ~req.resolved /\ req.applyCalls = <<>>

(***************************************************************************)
(* Properties of a predicate that throws                                   *)
(***************************************************************************)

\* What checkIfEnabled appends to the Error a predicate threw (line 523).
PredicateThrewSuffix ==
    " - make sure the context param object is passed when calling the protected resource apply method"

\* The step compiles the user policy and resolves the setting of the
\* request's protected resource, one of whose entries has a predicate that
\* throws for the request's contextParams.
ResolvesWithThrowingPredicate ==
    /\ RolePoliciesCompiled
    /\ Bind(collectServerUserPolicy(ModuleVars, systemSecurityData, req.user,
                                    req'.userPolicies), LAMBDA userPolicy :
          /\ ~userPolicy.threw
          /\ Bind(getProtectedResourceByLocator(userPolicy.val, req.locator),
                  LAMBDA protectedResource :
                /\ ~protectedResource.threw
                /\ \E i \in 1..Len(protectedResource.val.settings) :
                      checkIfEnabled(protectedResource.val.settings[i].policySetting,
                                     req.contextParams).kind = "throw"))

\* C15: when a predicate throws while the setting of a request is resolved,
\* the request ends in the Error the predicate threw: no setting is resolved,
\* neither the default nor the setting of another entry, and apply is not
\* invoked.
C15_ThrowingPredicateEndsRequestInError ==
    [][ResolvesWithThrowingPredicate =>
          /\ req'.pc = "done"
          /\ req'.outcome.settled = "rejected" /\ req'.outcome.isError
          /\ req'.outcome.message[Len(req'.outcome.message)] = PredicateThrewSuffix
          /\ ~req'.resolved
          /\ ~Has(req', "setting")
          /\ ~req'.applyInvoked
          /\ req'.applyCalls = <<>>]_vars

\* A request without contextParams under a role that selected an
\* unconditional grant and a grant whose predicate reads the contextParams:
\* it ended in the predicate's Error although the first entry was enabled.
C15_Witness ==
    /\ RequestEnded /\ Has(req, "userPolicies")
    /\ req.userRole = EditorRole
    /\ req.locator = "api.account"
    /\ req.contextParams = UndefinedObject
    /\ Len(req.userPolicies[1].settings) = 2
    /\ ~Has(req.userPolicies[1].settings[1], "condition")
    /\ req.userPolicies[1].settings[2].condition = <<"acct", ".", "isOwner">>
    /\ EndedInError
    /\ req.outcome.message[Len(req.outcome.message)] = PredicateThrewSuffix
    /\ ~req.resolved /\ req.applyCalls = <<>>

(***************************************************************************)
(* Properties of the snapshot under the calls that read it                 *)
(***************************************************************************)

Observed(request) ==
    [pc |-> request.pc,
     outcome |-> IF Has(request, "outcome") THEN request.outcome ELSE Undefined,
     applyCalls |-> IF Has(request, "applyCalls") THEN request.applyCalls ELSE <<>>]

\* The lookups attached to the arrays of the snapshot the request began under
\* answer from these arrays.
LookupsAnswerFromSnapshotBegunUnder ==
    req.began.snapshot.loaded =>
        /\ \A t \in TypeNames :
              SnapshotFindResourceType(t) =
                 findResourceType(req.began.snapshot.resourceTypes, t)
        /\ \A n \in ResourceNames :
              SnapshotFindProtectedResourceByName(n) =
                 findProtectedResourceByName(req.began.snapshot.dictionary, n)
        /\ \A f \in FactoryNames :
              SnapshotFindConditionFactory(f) =
                 findConditionFactory(req.began.snapshot.conditionFactories, f)

\* C17: a request suspended on the role lookup completes against one
\* snapshot: what the caller observes is what the request does entirely under
\* the snapshot it began under, or entirely under the one visible when it
\* resumes (the role looked up as that configuration looks it up), and the
\* lookups obtained from the snapshot it began under still answer from it.
C17_SuspendedRequestCompletesAgainstOneSnapshot ==
    [][(req.pc = "awaitRole" /\ req'.pc # "awaitRole") =>
          /\ LookupsAnswerFromSnapshotBegunUnder
          /\ Observed(req') \in
                {Observed(AnswerRoleLookup(req, req.findRole, req.began.m,
                                           req.began.snapshot)),
                 Observed(AnswerRoleLookup(req, findRole, ModuleVars,
                                           systemSecurityData))}]_vars

(***************************************************************************)
(* Properties of a reload                                                  *)
(***************************************************************************)

\* The names of the entries of a collection, in order.
NamesOf(list) == [i \in 1..Len(list) |-> list[i].name]

\* The configuration passes validation when it is loaded first, by every
\* requirement of addResourceType, addResourceToDictionary and addPolicy.
ValidAlone(security) ==
    Bind(AddResourceTypes(<<>>, security.resourceTypes, 1), LAMBDA t :
       /\ ~t.threw
       /\ Bind(AddResourcesToDictionary(t.val, <<>>, security.dictionary, 1), LAMBDA d :
             /\ ~d.threw
             /\ ~AddPolicies(t.val, d.val, <<>>, security.policies, 1).threw))

\* The configurations load is called with that are valid on their own.
ValidLoadConfigs == {c \in LoadConfigs : ValidAlone(c)}

\* C18: a load that follows a successful load succeeds exactly when its
\* configuration is valid on its own (the same configuration again included),
\* and the visible snapshot then holds exactly the resource types, dictionary
\* entries and policies of this configuration, in its order.
C18_ReloadReplacesEverything ==
    (loadOutcome.called /\ loadOutcome.validated /\ loadOutcome.after # "none") =>
        /\ loadOutcome.threw = (loadOutcome.security \notin ValidLoadConfigs)
        /\ (loadOutcome.after = "same" => ~loadOutcome.threw)
        /\ ~loadOutcome.threw =>
              /\ systemSecurityData.loaded
              /\ NamesOf(systemSecurityData.resourceTypes) =
                    NamesOf(loadOutcome.security.resourceTypes)
              /\ NamesOf(systemSecurityData.dictionary) =
                    NamesOf(loadOutcome.security.dictionary)
              /\ NamesOf(systemSecurityData.policies) =
                    NamesOf(loadOutcome.security.policies)
              /\ systemSecurityData.resourceTypes = resourceTypes
              /\ systemSecurityData.dictionary = dictionary
              /\ systemSecurityData.policies = policies

\* OtherValidConfig is loaded after another configuration was: of the two
\* resource types, two dictionary entries and two policies a valid
\* configuration before it may have had, the one of OtherValidConfig is there.
C18_Witness ==
    /\ loadOutcome.called /\ ~loadOutcome.threw
    /\ loadOutcome.after = "other"
    /\ loadOutcome.security = OtherValidConfig
    /\ NamesOf(systemSecurityData.resourceTypes) = <<"Api">>
    /\ NamesOf(systemSecurityData.dictionary) = <<"AccountApi">>
    /\ NamesOf(systemSecurityData.policies) = <<"Audit">>

(***************************************************************************)
(* Properties of the order of validation                                   *)
(***************************************************************************)

\* The first offending entity of a configuration, resource types before
\* dictionary entries before policies: the collection it is in and the cause
\* its requirement reports.  The dictionary is looked at only with every
\* resource type registered, the policies only with every dictionary entry.
FirstOffence(security) ==
    Bind(AddResourceTypes(<<>>, security.resourceTypes, 1), LAMBDA t :
       IF t.threw THEN [stage |-> "resourceTypes", cause |-> t.message]
       ELSE Bind(AddResourcesToDictionary(t.val, <<>>, security.dictionary, 1), LAMBDA d :
               IF d.threw THEN [stage |-> "dictionary", cause |-> d.message]
               ELSE Bind(AddPolicies(t.val, d.val, <<>>, security.policies, 1), LAMBDA q :
                       IF q.threw THEN [stage |-> "policies", cause |-> q.message]
                       ELSE [stage |-> "none", cause |-> <<>>])))

\* C19: load validates resource types, then the dictionary, then policies,
\* and stops at the first failure: the cause it reports is the first offence
\* in that order; a collection after the failing one is not validated, so the
\* array of the definition service that holds it is left as it was; the
\* dictionary is validated with all resource types of the configuration
\* registered, the policies with all its dictionary entries too.
C19_ValidationOrderAndFirstFailure ==
    [][loadOutcome'.validated =>
          \E offence \in {FirstOffence(loadOutcome'.security)} :
             /\ loadOutcome'.threw = (offence.stage # "none")
             /\ loadOutcome'.logged = offence.cause
             /\ offence.stage = "resourceTypes" =>
                   dictionary' = dictionary /\ policies' = policies
             /\ offence.stage = "dictionary" =>
                   /\ NamesOf(resourceTypes') = NamesOf(loadOutcome'.security.resourceTypes)
                   /\ policies' = policies
             /\ offence.stage \in {"policies", "none"} =>
                   /\ NamesOf(resourceTypes') = NamesOf(loadOutcome'.security.resourceTypes)
                   /\ NamesOf(dictionary') = NamesOf(loadOutcome'.security.dictionary)]_vars

\* A configuration whose resource types fail and whose dictionary would fail
\* too had it been validated: the cause reported is the one of the resource
\* type, and the dictionary and policies of the load before are still there.
C19_Witness ==
    /\ loadOutcome.called /\ loadOutcome.validated /\ loadOutcome.threw
    /\ FirstOffence(loadOutcome.security).stage = "resourceTypes"
    /\ loadOutcome.logged = FirstOffence(loadOutcome.security).cause
    /\ AddResourcesToDictionary(resourceTypes, <<>>, loadOutcome.security.dictionary, 1).threw
    /\ NamesOf(dictionary) = <<"AccountApi">>
    /\ NamesOf(dictionary) # NamesOf(loadOutcome.security.dictionary)
    /\ NamesOf(policies) = <<"Audit">>

(***************************************************************************)
(* Properties of the views by environment                                  *)
(***************************************************************************)

\* Whether the resource type a dictionary entry of the snapshot names, as the
\* snapshot declares it, lists the environment.
DeclaredFor(snapshot, typeName, environment) ==
    \E i \in 1..Len(snapshot.resourceTypes) :
        /\ snapshot.resourceTypes[i].name = typeName
        /\ environment \in snapshot.resourceTypes[i].env

\* The same for the protected resource a grant names.
GrantDeclaredFor(snapshot, grant, environment) ==
    \E i \in 1..Len(snapshot.dictionary) :
        /\ snapshot.dictionary[i].name = grant.resource
        /\ DeclaredFor(snapshot, snapshot.dictionary[i].type, environment)

\* The grants of a list of policies, each under its policy and policy setting.
GrantsUnder(userPolicies) ==
    UNION {UNION {{<<userPolicies[p].name, userPolicies[p].settings[s].setting,
                     userPolicies[p].settings[s].protectedResources[g]>> :
                      g \in 1..Len(userPolicies[p].settings[s].protectedResources)} :
                  s \in 1..Len(userPolicies[p].settings)} :
           p \in 1..Len(userPolicies)}

\* The view of an environment holds exactly the resource types that declare
\* it, and the dictionary entries and policy grants whose type declares it.
ViewKeepsWhatDeclares(view, snapshot, userPolicies, environment) ==
    /\ ~view.threw
    /\ view.val.resourceTypes =
          SelectSeq(snapshot.resourceTypes, LAMBDA type : environment \in type.env)
    /\ view.val.dictionary =
          SelectSeq(snapshot.dictionary,
                    LAMBDA entry : DeclaredFor(snapshot, entry.type, environment))
    /\ GrantsUnder(view.val.policies) =
          {grant \in GrantsUnder(userPolicies) :
              GrantDeclaredFor(snapshot, grant[3], environment)}

\* C20: when collectClientUserPolicy answers for a user under a role, the
\* data it resolves with is the client view, and the client view and the
\* server view of the visible snapshot each keep a resource type, a
\* dictionary entry or a policy grant exactly when its resource type declares
\* that environment.
C20_ViewsKeepExactlyWhatDeclaresTheEnvironment ==
    [][(/\ req.pc = "awaitRoleClient" /\ req'.pc = "collected"
        /\ systemSecurityData.loaded
        /\ Has(req', "userPolicies")) =>
          /\ req'.collected =
                collectClientUserPolicy(ModuleVars, systemSecurityData, req.user,
                                        req'.userPolicies)
          /\ \A environment \in {"client", "server"} :
                ViewKeepsWhatDeclares(
                    generateUserSecurityDataByEnvironment(ModuleVars, systemSecurityData,
                                                          req.user, req'.userPolicies,
                                                          environment),
                    systemSecurityData, req'.userPolicies, environment)]_vars

(***************************************************************************)
(* Properties of a configuration every rule holds for                      *)
(***************************************************************************)

\* Every entry of the list has a truthy value under each of the keys.
AllTruthy(list, keys) == \A i \in 1..Len(list) : \A k \in keys : Truthy(list[i], k)

\* Every validation rule holds for the configuration: resource types have a
\* name, an environment and settings, and an apply function when they are for
\* the server; dictionary entries have a name, a locator, a declared type and
\* a defaultSetting of that type; policies have a name and settings, each
\* policy setting a label and grants that name a dictionary resource and a
\* setting of its type; a defaultSetting, when given, is the label of a policy
\* setting; names are distinct; there is a defaultRole.
EveryRuleHolds(security) ==
    /\ Truthy(security, "defaultRole")
    /\ AllTruthy(security.resourceTypes, {"name"})
    /\ \A i \in 1..Len(security.resourceTypes) :
          /\ Has(security.resourceTypes[i], "env")
          /\ Has(security.resourceTypes[i], "settings")
          /\ "server" \in security.resourceTypes[i].env =>
                Truthy(security.resourceTypes[i], "apply")
    /\ AllTruthy(security.dictionary, {"name", "type", "locator", "defaultSetting"})
    /\ AllTruthy(security.policies, {"name"})
    /\ \A i \in 1..Len(security.policies) :
          /\ Has(security.policies[i], "settings")
          /\ AllTruthy(security.policies[i].settings, {"setting"})
          /\ Truthy(security.policies[i], "defaultSetting") =>
                \E j \in 1..Len(security.policies[i].settings) :
                    security.policies[i].settings[j].setting =
                       security.policies[i].defaultSetting
    /\ \A g \in GrantsOf(security.policies) : Truthy(g, "setting")
    /\ ReferentiallyClosed(security.resourceTypes, security.dictionary, security.policies)
    /\ ~HasDuplicateName(security.resourceTypes)
    /\ ~HasDuplicateName(security.dictionary)
    /\ ~HasDuplicateName(security.policies)

\* The policy of the snapshot is the input policy, a policy setting that lists
\* no protected resources listing none.
SamePolicy(loaded, input) ==
    /\ \A k \in DOMAIN input \ {"settings"} : Has(loaded, k) /\ loaded[k] = input[k]
    /\ Len(loaded.settings) = Len(input.settings)
    /\ \A j \in 1..Len(input.settings) :
          /\ \A k \in DOMAIN input.settings[j] :
                /\ Has(loaded.settings[j], k)
                /\ loaded.settings[j][k] = input.settings[j][k]
          /\ ~Has(input.settings[j], "protectedResources") =>
                loaded.settings[j].protectedResources = <<>>

\* C21: a configuration for which every validation rule holds loads without
\* throwing, and the visible snapshot then holds every resource type, every
\* dictionary entry and every policy of the configuration, in input order.
C21_ValidConfigurationLoadsInInputOrder ==
    (loadOutcome.called /\ EveryRuleHolds(loadOutcome.security)) =>
        /\ ~loadOutcome.threw
        /\ systemSecurityData.loaded
        /\ systemSecurityData.resourceTypes = loadOutcome.security.resourceTypes
        /\ systemSecurityData.dictionary = loadOutcome.security.dictionary
        /\ Len(systemSecurityData.policies) = Len(loadOutcome.security.policies)
        /\ \A i \in 1..Len(loadOutcome.security.policies) :
              SamePolicy(systemSecurityData.policies[i], loadOutcome.security.policies[i])

\* The configuration of "should validate policy" is loaded: two resource
\* types, two dictionary entries, a policy with a null defaultSetting, no
\* condition factory.
C21_Witness ==
    /\ loadOutcome.called /\ ~loadOutcome.threw
    /\ loadOutcome.security = SpecTestConfig
    /\ EveryRuleHolds(SpecTestConfig)
    /\ SpecTestConfig.policies[1].defaultSetting = Null
    /\ SpecTestConfig.conditionFactories = <<>>
    /\ NamesOf(systemSecurityData.resourceTypes) = <<"AppMenuItem", "Api">>
    /\ NamesOf(systemSecurityData.dictionary) = <<"AccountMenu", "AccountApi">>
    /\ NamesOf(systemSecurityData.policies) = <<"Account">>
    /\ systemSecurityData.conditionFactories = <<>>

(***************************************************************************)
(* Properties of setting values and locators                               *)
(***************************************************************************)

\* Some resource type of the list has two settings of one value.
HasRepeatedSettingValue(rts) ==
    \E t \in 1..Len(rts) :
        /\ Has(rts[t], "settings")
        /\ \E i, j \in 1..Len(rts[t].settings) :
              i # j /\ rts[t].settings[i].value = rts[t].settings[j].value

\* C22: the setting values of every resource type of a loaded snapshot are
\* pairwise distinct, and load refuses a configuration in which a resource
\* type lists one setting value twice.
C22_SettingValuesDistinctWithinType ==
    /\ systemSecurityData.loaded => ~HasRepeatedSettingValue(systemSecurityData.resourceTypes)
    /\ (loadOutcome.called /\ loadOutcome.validated
        /\ HasRepeatedSettingValue(loadOutcome.security.resourceTypes)) => loadOutcome.threw

\* Two dictionary entries of the list have one locator.
HasSharedLocator(dict) ==
    \E i, j \in 1..Len(dict) :
        /\ i # j
        /\ Has(dict[i], "locator") /\ Has(dict[j], "locator")
        /\ dict[i].locator = dict[j].locator

\* C23: the locators of the dictionary entries of a loaded snapshot are
\* pairwise distinct, and load refuses a configuration in which two
\* dictionary entries share a locator.
C23_LocatorsDistinct ==
    /\ systemSecurityData.loaded => ~HasSharedLocator(systemSecurityData.dictionary)
    /\ (loadOutcome.called /\ loadOutcome.validated
        /\ HasSharedLocator(loadOutcome.security.dictionary)) => loadOutcome.threw

(***************************************************************************)
(* Properties of formatUserSecurityData                                    *)
(***************************************************************************)

\* The functions module.exports of security.service.js lists (lines 14-19).
ServiceExports ==
    {"collectClientUserPolicy", "applyResourcePolicy", "load",
     "getSystemSecurityConfiguration"}

\* a === b for two values that may be of different types.
StrictlyEqual(a, b) == ToString(a) = ToString(b)

\* The view collectClientUserPolicy formats when it resolves for the request.
ViewFormatted(request) ==
    generateUserSecurityDataByEnvironment(ModuleVars, systemSecurityData, request.user,
        IF Has(request, "userPolicies") THEN request.userPolicies ELSE <<>>, "client").val

\* C24: formatUserSecurityData can be called on the security service, and the
\* record it returns (here to collectClientUserPolicy) has the user's id as id
\* and as userId, the user's display, an empty object as timestamp, and the
\* policies, dictionary and resourceTypes of its input unchanged.
C24_FormattedRecordCarriesUserIdAndInput ==
    [][(req' # req /\ req'.pc = "collected" /\ ~req'.collected.threw) =>
          /\ "formatUserSecurityData" \in ServiceExports
          /\ StrictlyEqual(req'.collected.val.id, req'.user.id)
          /\ StrictlyEqual(req'.collected.val.userId, req'.user.id)
          /\ req'.collected.val.display = req'.user.display
          /\ req'.collected.val.timestamp = EmptyObject
          /\ \A k \in {"policies", "dictionary", "resourceTypes"} :
                Has(ViewFormatted(req'), k) =>
                   /\ Has(req'.collected.val, k)
                   /\ req'.collected.val[k] = ViewFormatted(req')[k]]_vars

(***************************************************************************)
(* Properties of the order of the contributed entries                      *)
(***************************************************************************)

\* The grants a policy setting makes to the resource, in the order the policy
\* setting lists them, each as <<policy, policy setting, setting granted>>.
GrantsInOrder(policyDefinition, label, resourceName) ==
    Bind(FirstIndex(policyDefinition.settings, LAMBDA c : c.setting = label), LAMBDA c :
       Bind(SelectSeq(policyDefinition.settings[c].protectedResources,
                      LAMBDA grant : grant.resource = resourceName), LAMBDA grants :
          [g \in 1..Len(grants) |-> <<policyDefinition.name, label, grants[g].setting>>]))

\* The same for the policy settings selected for a policy, in the order they
\* are selected in.
RECURSIVE SelectedInOrder(_, _, _, _)
SelectedInOrder(policyDefinition, labels, resourceName, j) ==
    IF j > Len(labels) THEN <<>>
    ELSE GrantsInOrder(policyDefinition, labels[j], resourceName)
            \o SelectedInOrder(policyDefinition, labels, resourceName, j + 1)

\* The same for the policies of the snapshot, in the order of the snapshot.
RECURSIVE EnumerationOrder(_, _, _, _)
EnumerationOrder(userRole, pols, resourceName, i) ==
    IF i > Len(pols) THEN <<>>
    ELSE SelectedInOrder(pols[i], ExpectedLabels(userRole, pols[i]), resourceName, 1)
            \o EnumerationOrder(userRole, pols, resourceName, i + 1)

\* The contributed entries of a compiled protected resource, each as
\* <<policy, policy setting, setting granted>>.
ContributedEntries(protectedResource) ==
    [e \in 1..Len(protectedResource.settings) |->
        <<protectedResource.settings[e].policySetting.policy,
          protectedResource.settings[e].policySetting.setting,
          protectedResource.settings[e].setting.value>>]

\* C25: the contributed entries of every protected resource compiled for a
\* request are in enumeration order: by the order of the policies in the
\* snapshot, then by the order the settings are selected in for the policy,
\* then by the order of the grants inside the policy setting.
C25_ContributedEntriesInEnumerationOrder ==
    [][(req.pc = "awaitRole" /\ Has(req', "userPolicies")) =>
          \A compiled \in {collectServerUserPolicy(ModuleVars, systemSecurityData, req.user,
                                                   req'.userPolicies)} :
             ~compiled.threw =>
                \A r \in 1..Len(compiled.val) :
                   ContributedEntries(compiled.val[r]) =
                      EnumerationOrder(req'.userRole, systemSecurityData.policies,
                                       compiled.val[r].resource.name, 1)]_vars

\* A request under the role that lists Audit before Account, and own before
\* read, has ended: the entries of AccountApi are those of Account before the
\* one of Audit, as the snapshot lists the policies, and own before read, as
\* the role selects them.
C25_Witness ==
    /\ RequestEnded /\ Has(req, "userPolicies")
    /\ req.userRole = InverseRole
    /\ req.resolved
    /\ NamesOf(systemSecurityData.policies) = <<"Account", "Audit">>
    /\ NamesOf(req.userPolicies) = <<"Account", "Audit">>
    /\ \E compiled \in {collectServerUserPolicy(ModuleVars, systemSecurityData, req.user,
                                                req.userPolicies)} :
          /\ ~compiled.threw
          /\ \E r \in 1..Len(compiled.val) :
                /\ compiled.val[r].resource.name = "AccountApi"
                /\ ContributedEntries(compiled.val[r]) =
                      <<<<"Account", "own", "audit">>, <<"Account", "read", "allow">>,
                        <<"Audit", "on", "deny">>>>

(***************************************************************************)
(* Properties of requests of users security is not enforced for            *)
(***************************************************************************)

\* C26: a request of applyResourcePolicy for no user, or for a user without a
\* permissionRoleCode, ends allowed with the result true, whatever the
\* locator, the contextParams and the policies loaded (also when nothing is
\* loaded), and no role was looked up, no setting resolved and no apply
\* implementation invoked for it.
C26_NoRoleAlwaysAllowed ==
    (/\ Has(req, "locator") /\ req.pc # "idle"
     /\ (Has(req.user, "null") \/ ~Truthy(req.user, "permissionRoleCode"))) =>
        /\ RequestEnded
        /\ req.outcome = Allowed("true")
        /\ ~req.roleLookup
        /\ ~req.resolved
        /\ ~req.applyInvoked
        /\ req.applyCalls = <<>>

\* A user without a permissionRoleCode was allowed on the locator of
\* AccountApi, whose default in the loaded snapshot is deny and which the
\* policy Audit denies by default.
C26_Witness ==
    /\ RequestEnded
    /\ req.user = Anonymous
    /\ req.locator = "api.account"
    /\ req.outcome = Allowed("true")
    /\ systemSecurityData.loaded
    /\ systemSecurityData.dictionary = ValidConfig.dictionary
    /\ NamesOf(systemSecurityData.policies) = <<"Account", "Audit">>
    /\ ~loadOutcome.threw

\* The locator is the one of a dictionary entry of the snapshot whose
\* resource type is for the server.
ServerLocator(snapshot, locator) ==
    \E i \in 1..Len(snapshot.dictionary) :
        /\ snapshot.dictionary[i].locator = locator
        /\ DeclaredFor(snapshot, snapshot.dictionary[i].type, "server")

\* C27: a request of applyResourcePolicy for a tenant admin that has a
\* permissionRoleCode, on the locator of a server resource of the dictionary,
\* makes no role lookup and does not end in an error; no policy entry
\* contributes to the setting resolved for it.
C27_TenantAdminHasFullAccess ==
    [][(/\ req' # req /\ Has(req', "locator")
        /\ req.pc \in {"idle", "done", "collected"}
        /\ ~Has(req'.user, "null")
        /\ req'.user.tenantAdmin /\ Truthy(req'.user, "permissionRoleCode")
        /\ systemSecurityData.loaded
        /\ ServerLocator(systemSecurityData, req'.locator)) =>
          /\ ~req'.roleLookup
          /\ Has(req', "outcome") => ~(req'.outcome.settled = "rejected" /\ req'.outcome.isError)
          /\ req'.resolved]_vars

(***************************************************************************)
(* Properties of isSetting                                                 *)
(***************************************************************************)

\* C28: when a request of a user under a role ends allowed, the isSetting
\* function of the outcome returns true for the value of the setting that was
\* resolved and applied, false for every other setting value of the
\* resource's type, and fails for a name that is no setting of that type.
C28_IsSettingTellsTheAppliedSetting ==
    [][(/\ req.pc = "awaitRole" /\ req'.pc = "done"
        /\ req'.outcome.settled = "resolved") =>
          \A compiled \in {collectServerUserPolicy(ModuleVars, systemSecurityData, req.user,
                                                   req'.userPolicies)} :
          \A protectedResource \in {getProtectedResourceByLocator(compiled.val,
                                                                  req.locator).val} :
          \A settingName \in SettingNames \cup {"bogus"} :
             \E answer \in {isSetting(resourceTypes', protectedResource, settingName)} :
                IF settingName = req'.setting.value THEN answer = Returns("true")
                ELSE IF SettingIndex(protectedResource.resource.type, settingName) # 0
                THEN answer = Returns("false")
                ELSE answer.kind = "throw"]_vars

(***************************************************************************)
(* Properties of the setting calculateSetting returns                      *)
(***************************************************************************)

\* The setting has the value and the priority of a setting the resource type
\* declares.
DeclaredByType(setting, typeDef) ==
    /\ Has(setting, "value") /\ Has(setting, "priority")
    /\ \E i \in 1..Len(typeDef.settings) :
          /\ typeDef.settings[i].value = setting.value
          /\ typeDef.settings[i].priority = setting.priority

\* The settings the policy settings selected for the user grant to the
\* resource.
GrantedTo(userPolicies, resourceName) ==
    {grant[3].setting :
        grant \in {g \in GrantsUnder(userPolicies) : g[3].resource = resourceName}}

\* The setting is one the type of the resource declares, and its value is the
\* resource's defaultSetting or one granted to the resource.
OwnSetting(setting, resource, userPolicies) ==
    /\ DeclaredByType(setting, resource.type)
    /\ \/ setting.value = resource.defaultSetting.value
       \/ setting.value \in GrantedTo(userPolicies, resource.name)

====
